---- MODULE Spec2Model ----
(***************************************************************************)
(* Gender-stratified analysis engine (backend/services, backend/routers).  *)
(* The model covers the test selector, the group summarizer, the           *)
(* Benjamini-Hochberg corrector and the analyze_data request handler.      *)
(*                                                                         *)
(* Three specifications share the variables:                               *)
(*   Spec     one analyze_data request, stepped through its loops;         *)
(*   SpecFn   the selector and summarizer functions applied to a dataset;  *)
(*   SpecFDR  the corrector applied to a list of p-values / test results.  *)
(***************************************************************************)
EXTENDS Integers, Sequences, FiniteSets, TLC

(***************************************************************************)
(* Bounds of the model.                                                    *)
(***************************************************************************)
\* longest list of p-values / results handed to the corrector
MaxTests == 3
\* largest number of non-missing observations of one gender group
MaxGroup == 3
\* largest suppression threshold a request carries
MaxThreshold == 2
\* the large cell count of a contingency table (cells hold 0, 1 or BigCell)
BigCell == 5
\* most rows one gender has in the dataset of an analyze_data request
MaxRunRows == 3
\* longest categorical family handed to the corrector beside a continuous one
MaxCatTests == 1
\* most rows of a raw table handed to the preparation functions
MaxPrepRows == 2
MaxCell == 2
MaxTime == 3
MaxTtl == 1

(***************************************************************************)
(* IEEE-754 binary64 arithmetic, exact.  A finite non-negative double is   *)
(* [hi, lo, e]: its 53-bit significand is hi * 2^27 + lo and its value is  *)
(* significand * 2^e.  Only the operations the corrector performs are      *)
(* modelled: double * small int, double / small int, min, comparison, all  *)
(* rounded to nearest, ties to even, as numpy float64 does.                *)
(***************************************************************************)
RECURSIVE Pow2(_)
Pow2(n) == IF n = 0 THEN 1 ELSE 2 * Pow2(n - 1)

Limb == Pow2(27)
HiMin == Pow2(25)
HiMax == Pow2(26)

Dbl(h, l, x) == [k |-> "num", hi |-> h, lo |-> l, e |-> x]
DZero == Dbl(0, 0, -2000)
DOne == Dbl(HiMin, 0, -52)
\* the literal 0.05 of the sources
D005 == Dbl(53687091, 26843546, -57)
NaN == [k |-> "nan"]
None == [k |-> "none"]
NA == [k |-> "str"]
\* a finite float whose value the model does not track (a test statistic)
Float == [k |-> "float"]
IntV(n) == [k |-> "int", v |-> n]
StrV == [k |-> "str"]

IsNum(v) == v.k = "num"

\* a < b on finite non-negative doubles
DLess(a, b) ==
    \/ a.e < b.e
    \/ a.e = b.e /\ a.hi < b.hi
    \/ a.e = b.e /\ a.hi = b.hi /\ a.lo < b.lo
DLeq(a, b) == a = b \/ DLess(a, b)
DMin(a, b) == IF DLess(b, a) THEN b ELSE a

\* number of bits by which the high limb h exceeds a 53-bit significand
RECURSIVE Excess(_)
Excess(h) == IF h < HiMax THEN 0 ELSE 1 + Excess(h \div 2)

\* (h * 2^27 + l) * 2^x with sticky bit st, rounded to a 53-bit significand
DRound(h, l, x, st) ==
    LET s == Excess(h)
        p == Pow2(s)
        nh == h \div p
        nl == ((h % p) * Limb + l) \div p
        rem == l % p
        half == p \div 2
        up == IF s = 0 THEN FALSE
              ELSE \/ rem > half
                   \/ rem = half /\ st
                   \/ rem = half /\ ~st /\ nl % 2 = 1
        rl == IF up THEN (nl + 1) % Limb ELSE nl
        rh == IF up /\ nl + 1 = Limb THEN nh + 1 ELSE nh
    IN  IF rh = HiMax THEN Dbl(HiMin, 0, x + s + 1) ELSE Dbl(rh, rl, x + s)

\* fl(a * m) for an integer 1 <= m <= 7
DMulInt(a, m) ==
    IF a = DZero THEN DZero
    ELSE LET full == a.lo * m
         IN  DRound(a.hi * m + full \div Limb, full % Limb, a.e, FALSE)

\* fl(a / r) for an integer 1 <= r <= 7: the significand is widened by four
\* bits, divided with remainder, and rounded with the remainder as sticky
DDivInt(a, r) ==
    IF a = DZero THEN DZero
    ELSE LET nh == a.hi * 16 + a.lo \div Pow2(23)
             nl == (a.lo % Pow2(23)) * 16
             qh == nh \div r
             t == (nh % r) * Limb + nl
         IN  DRound(qh, t \div r, a.e - 4, t % r # 0)

\* fl(a + b) for finite non-negative doubles whose exponents differ by at
\* most three: the significand of the larger is shifted onto the exponent of
\* the smaller, the sum is exact and then rounded
DAdd(a, b) ==
    IF a = DZero THEN b
    ELSE IF b = DZero THEN a
    ELSE LET big == IF a.e >= b.e THEN a ELSE b
             small == IF a.e >= b.e THEN b ELSE a
             sh == Pow2(big.e - small.e)
             low == (big.lo % (Limb \div sh)) * sh + small.lo
         IN  DRound(big.hi * sh + big.lo \div (Limb \div sh) + small.hi
                        + low \div Limb,
                    low % Limb, small.e, FALSE)

\* the doubles nearest to 0.1 and 0.3
D01 == Dbl(53687091, 26843546, -56)
D03 == Dbl(40265318, 53687091, -54)

(***************************************************************************)
(* State.  pc is the position of the running operation; session is the     *)
(* uploaded table of the session, df the working copy of the running       *)
(* request and req the AnalysisRequest; normality_tests, continuous_results *)
(* and categorical_results are the lists analyze_data accumulates; out is  *)
(* the return value of the last selector / summarizer call; p_values and   *)
(* q_values are the p-values of the continuous and the categorical family; *)
(* corrected is the return value of the last corrector call; cache is the  *)
(* DataCache of the application and now the clock, in units of five        *)
(* minutes.                                                                *)
(***************************************************************************)
VARIABLES pc, session, df, req, normality_tests, continuous_results,
          categorical_results, out, p_values, q_values, corrected, cache, now

vars == <<pc, session, df, req, normality_tests, continuous_results,
          categorical_results, out, p_values, q_values, corrected, cache, now>>

\* DataCache(ttl_minutes): no session, last_cleanup at the time of construction
DataCache(ttl_minutes, t) ==
    [sessions |-> <<>>, ttl_minutes |-> ttl_minutes, last_cleanup |-> t]

Range(s) == {s[i] : i \in 1..Len(s)}

RECURSIVE SeqsUpTo(_, _)
SeqsUpTo(S, n) ==
    IF n = 0 THEN {<<>>}
    ELSE LET shorter == SeqsUpTo(S, n - 1)
         IN  shorter \cup {Append(s, x) : s \in {t \in shorter : Len(t) = n - 1}, x \in S}

(***************************************************************************)
(* services/fdr.py                                                         *)
(***************************************************************************)
\* np.isnan(p): a TypeError for None and for a string
IsnanRaises(p) == p = None \/ p = NA

\* sorted_indices = np.argsort(p_values): insertion of index i behind every
\* index whose value is not larger (equal values keep their order)
RECURSIVE ArgSortInsert(_, _, _)
ArgSortInsert(p, s, i) ==
    IF s = <<>> THEN <<i>>
    ELSE IF DLess(p[i], p[Head(s)]) THEN <<i>> \o s
    ELSE <<Head(s)>> \o ArgSortInsert(p, Tail(s), i)

RECURSIVE ArgSortUpTo(_, _)
ArgSortUpTo(p, n) ==
    IF n = 0 THEN <<>> ELSE ArgSortInsert(p, ArgSortUpTo(p, n - 1), n)

ArgSort(p) == ArgSortUpTo(p, Len(p))

\* corrected_p[i] = sorted_p[i] * m / (i + 1); here i is the rank i + 1 of the source
BHScaled(sorted_p, m, i) == DDivInt(DMulInt(sorted_p[i], m), i)

\* for i in range(m - 2, -1, -1): corrected_p[i] = min(corrected_p[i], corrected_p[i + 1])
RECURSIVE BHMonotone(_, _, _)
BHMonotone(sorted_p, m, i) ==
    IF i = m THEN BHScaled(sorted_p, m, m)
    ELSE DMin(BHScaled(sorted_p, m, i), BHMonotone(sorted_p, m, i + 1))

\* np.minimum(corrected_p, 1.0)
BHCap(x) == IF DLess(DOne, x) THEN DOne ELSE x

_benjamini_hochberg(p) ==
    LET sorted_indices == ArgSort(p)
        m == Len(p)
        sorted_p == [i \in 1..m |-> p[sorted_indices[i]]]
        corrected_p == [i \in 1..m |-> BHCap(BHMonotone(sorted_p, m, i))]
        rank == [j \in 1..m |-> CHOOSE i \in 1..m : sorted_indices[i] = j]
    IN  [j \in 1..m |-> corrected_p[rank[j]]]

\* the indices the loop of apply_fdr_correction keeps, in order
RECURSIVE ValidIndices(_, _)
ValidIndices(p, n) ==
    IF n = 0 THEN <<>>
    ELSE IF p[n] = NaN THEN ValidIndices(p, n - 1)
    ELSE Append(ValidIndices(p, n - 1), n)

\* apply_fdr_correction: [exc, value]; exc is the exception that leaves it
apply_fdr_correction(p) ==
    IF p = <<>> THEN [exc |-> "none", value |-> <<>>]
    ELSE IF \E i \in 1..Len(p) : IsnanRaises(p[i])
    THEN [exc |-> "TypeError", value |-> <<>>]
    ELSE LET valid_indices == ValidIndices(p, Len(p))
             valid_p_values == [i \in 1..Len(valid_indices) |-> p[valid_indices[i]]]
         IN  IF valid_p_values = <<>>
             THEN [exc |-> "none", value |-> [i \in 1..Len(p) |-> NaN]]
             ELSE LET corrected_p == _benjamini_hochberg(valid_p_values)
                  IN  [exc |-> "none",
                       value |-> [i \in 1..Len(p) |->
                           IF p[i] = NaN THEN NaN
                           ELSE corrected_p[CHOOSE j \in 1..Len(valid_indices) :
                                                valid_indices[j] = i]]]

\* the p-values one family's loop of apply_fdr_to_analysis_results collects
FamilyIndices(results) == ValidIndices([i \in 1..Len(results) |-> results[i].test.p], Len(results))

FamilyP(results) ==
    LET idx == FamilyIndices(results)
    IN  [i \in 1..Len(idx) |-> results[idx[i]].test.p]

\* one family's results with p_fdr and fdr_method set where a p-value was collected
FamilyCorrected(results, method) ==
    LET idx == FamilyIndices(results)
        c == apply_fdr_correction(FamilyP(results)).value
    IN  [i \in 1..Len(results) |->
            IF \E j \in 1..Len(idx) : idx[j] = i
            THEN [results[i] EXCEPT
                    !.test.p_fdr = c[CHOOSE j \in 1..Len(idx) : idx[j] = i],
                    !.test.fdr_method = method]
            ELSE results[i]]

apply_fdr_to_analysis_results(cont, cat, method) ==
    IF \/ \E i \in 1..Len(cont) : IsnanRaises(cont[i].test.p)
       \/ \E i \in 1..Len(cat) : IsnanRaises(cat[i].test.p)
    THEN [exc |-> "TypeError"]
    ELSE [exc |-> "none",
          continuous_results |-> FamilyCorrected(cont, method),
          categorical_results |-> FamilyCorrected(cat, method),
          fdr_method |-> method,
          continuous_tests_corrected |-> Len(FamilyP(cont)),
          categorical_tests_corrected |-> Len(FamilyP(cat))]

(***************************************************************************)
(* The dataset.  A row is [gender, x, lev]: the normalized gender, a       *)
(* numeric column x and a text column lev; XNaN / LevNaN are their missing *)
(* values.  Column names are lower case (analyze.py line 50).              *)
(***************************************************************************)
XNaN == 0 - 1
LevNaN == "nan"
Columns == {"gender", "x", "lev"}
Row(g, xv, lv) == [gender |-> g, x |-> xv, lev |-> lv]

\* str.lower() on the names the model uses
Lower(s) ==
    CASE s = "X" -> "x"
      [] s = "Lev" -> "lev"
      [] s = "Female" -> "female"
      [] s = "Male" -> "male"
      [] OTHER -> s

LowerAll(seq) == [i \in 1..Len(seq) |-> Lower(seq[i])]

IsNumericColumn(var) == var = "x"
IsNA(row, var) == IF var = "x" THEN row.x = XNaN ELSE row.lev = LevNaN

\* gender in df[gender_col].values
GenderPresent(d, g) == \E i \in 1..Len(d) : d[i].gender = g
\* df[df[gender_col] == g]
GenderData(d, g) == SelectSeq(d, LAMBDA r : r.gender = g)
\* gender_data[var].dropna(), kept as rows
VarData(d, var, g) == SelectSeq(GenderData(d, g), LAMBDA r : ~IsNA(r, var))

\* all values of a group are equal (zero variance)
Constant(rows, var) ==
    \A i, j \in 1..Len(rows) :
        IF var = "x" THEN rows[i].x = rows[j].x ELSE rows[i].lev = rows[j].lev

(***************************************************************************)
(* services/summarize.py: test_normality.  oracle[g] is what               *)
(* stats.shapiro / stats.normaltest yields for gender g: a p-value or NaN  *)
(* (also standing for the exception the bare except turns into NaN; a text *)
(* column always raises).                                                  *)
(***************************************************************************)
NormalityMinN == 3
ShapiroMaxN == 5000

\* the genders of categories_order whose group is tested
NormalityTested(d, var0, categories_order) ==
    IF Lower(var0) \notin Columns THEN {}
    ELSE {g \in Range(categories_order) :
            /\ GenderPresent(d, Lower(g))
            /\ Len(VarData(d, Lower(var0), Lower(g))) >= NormalityMinN}

RECURSIVE NormalityLoop(_, _, _, _)
NormalityLoop(d, var, order, oracle) ==
    IF order = <<>> THEN <<>>
    ELSE LET gender == Head(order)
             rest == NormalityLoop(d, var, Tail(order), oracle)
             var_data == VarData(d, var, Lower(gender))
         IN  IF GenderPresent(d, Lower(gender)) /\ Len(var_data) >= NormalityMinN
             THEN <<[var |-> var,
                     gender |-> gender,
                     test |-> IF Len(var_data) <= ShapiroMaxN
                              THEN "Shapiro-Wilk" ELSE "D'Agostino",
                     p |-> IF ~IsNumericColumn(var) \/ oracle[gender] = NaN
                           THEN None ELSE oracle[gender],
                     statistic |-> IF ~IsNumericColumn(var) \/ oracle[gender] = NaN
                                   THEN None ELSE Float]>> \o rest
             ELSE rest

test_normality(d, var0, categories_order, oracle) ==
    LET var == Lower(var0)
    IN  IF var \notin Columns THEN <<>>
        ELSE NormalityLoop(d, var, categories_order, oracle)

(***************************************************************************)
(* services/test_select.py.  lib is what the statistical routine of the    *)
(* selected branch does on this call: Raise (it raises), NaN, or the       *)
(* p-value it returns, already rounded to four decimals.                   *)
(***************************************************************************)
Raise == [k |-> "raise"]
P001 == Dbl(34359738, 49392124, -62)
\* the rounded p-values a routine returns in the model: 0.001 and 0.05
TestPs == {P001, D005}

ErrorDict(what) ==
    [statistic |-> NaN, p |-> NaN, df |-> None, assumptions_met |-> FALSE,
     note |-> <<"Error in", what>>]

\* round(statistic, 4) of a routine that returned p
StatOf(lib) == IF lib = NaN THEN NaN ELSE Float

\* fault variant of GroupsLoop: a category present in the table is a group
\* even when all its values of var are missing
RECURSIVE GroupsLoopAll(_, _, _)
GroupsLoopAll(d, var, order) ==
    IF order = <<>> THEN <<>>
    ELSE LET gender == Head(order)
             rest == GroupsLoopAll(d, var, Tail(order))
         IN  IF GenderPresent(d, gender)
             THEN <<[name |-> gender, data |-> VarData(d, var, gender)]>> \o rest
             ELSE rest

\* the groups loop: the requested categories with at least one value of var
RECURSIVE GroupsLoop(_, _, _)
GroupsLoop(d, var, order) ==
    IF order = <<>> THEN <<>>
    ELSE LET gender == Head(order)
             var_data == VarData(d, var, gender)
             rest == GroupsLoop(d, var, Tail(order))
         IN  IF GenderPresent(d, gender) /\ Len(var_data) > 0
             THEN <<[name |-> gender, data |-> var_data]>> \o rest
             ELSE rest

\* fault variant of RejectsNormality: the variable of the normality result
\* is not compared
RejectsNormalityAnyVar(test, var) ==
    /\ test.p # None
    /\ DLess(test.p, D005)

\* fault variant of RejectsNormality: the gate also rejects at p = 0.05
RejectsNormalityAtAlpha(test, var) ==
    /\ test.var = var
    /\ test.p # None
    /\ DLeq(test.p, D005)

\* if test['var'] == var and test['p'] is not None: if test['p'] < 0.05
RejectsNormality(test, var) ==
    /\ test.var = var
    /\ test.p # None
    /\ DLess(test.p, D005)

NormalGroups(normality_tests_, var) ==
    ~ \E i \in 1..Len(normality_tests_) : RejectsNormality(normality_tests_[i], var)

\* the test the continuous branch matrix picks
ContinuousTestName(n_groups, normal_groups) ==
    IF n_groups = 2
    THEN IF normal_groups THEN "welch_ttest" ELSE "mann_whitney"
    ELSE IF normal_groups THEN "welch_anova" ELSE "kruskal_wallis"

\* what ttest_ind / mannwhitneyu / pg.welch_anova / kruskal can do on groups
ContinuousLib(name, groups, var) ==
    LET small == \E i \in 1..Len(groups) : Len(groups[i].data) < 2
        flat == \A i \in 1..Len(groups) : Constant(groups[i].data, var)
        same == \A i, j \in 1..Len(groups) :
                    Constant(groups[i].data \o groups[j].data, var)
    IN  IF ~IsNumericColumn(var) THEN {Raise}
        ELSE CASE name \in {"welch_ttest", "welch_anova"} ->
                    IF small THEN {NaN}
                    ELSE IF flat THEN {NaN} \cup TestPs ELSE TestPs
               [] name = "mann_whitney" -> TestPs
               [] name = "kruskal_wallis" ->
                    IF same THEN {Raise, NaN} ELSE TestPs

_run_welch_ttest(group1, group2, lib) ==
    IF lib = Raise THEN ErrorDict("t-test")
    ELSE [statistic |-> StatOf(lib), p |-> lib,
          df |-> IntV(Len(group1) + Len(group2) - 2),
          assumptions_met |-> TRUE,
          note |-> <<"Welch's t-test (unequal variances assumed)">>]

_run_mann_whitney(group1, group2, lib) ==
    IF lib = Raise THEN ErrorDict("Mann-Whitney test")
    ELSE [statistic |-> StatOf(lib), p |-> lib, df |-> None,
          assumptions_met |-> TRUE,
          note |-> <<"Mann-Whitney U test (non-parametric)">>]

_run_welch_anova(groups, lib) ==
    IF lib = Raise THEN ErrorDict("Welch ANOVA")
    ELSE [statistic |-> StatOf(lib), p |-> lib, df |-> StrV,
          assumptions_met |-> TRUE,
          note |-> <<"Welch's ANOVA (unequal variances assumed)">>]

_run_kruskal_wallis(groups, lib) ==
    IF lib = Raise THEN ErrorDict("Kruskal-Wallis test")
    ELSE [statistic |-> StatOf(lib), p |-> lib, df |-> IntV(Len(groups) - 1),
          assumptions_met |-> TRUE,
          note |-> <<"Kruskal-Wallis test (non-parametric)">>]

\* select_continuous_test: [exc, name, result]
select_continuous_test(d, var0, categories_order0, normality_tests_, lib) ==
    LET var == Lower(var0)
        categories_order == LowerAll(categories_order0)
        groups == GroupsLoop(d, var, categories_order)
        normal_groups == NormalGroups(normality_tests_, var)
    IN  IF var \notin Columns
        THEN [exc |-> "none", name |-> "insufficient_data",
              result |-> [note |-> <<"Variable not found in DataFrame">>]]
        ELSE IF Len(groups) < 2
        THEN [exc |-> "none", name |-> "insufficient_data",
              result |-> [note |-> <<"Less than 2 groups with data">>]]
        ELSE IF Len(groups) = 2
        THEN IF normal_groups
             THEN [exc |-> "none", name |-> "welch_ttest",
                   result |-> _run_welch_ttest(groups[1].data, groups[2].data, lib)]
             ELSE [exc |-> "none", name |-> "mann_whitney",
                   result |-> _run_mann_whitney(groups[1].data, groups[2].data, lib)]
        ELSE IF normal_groups
             THEN [exc |-> "none", name |-> "welch_anova",
                   result |-> _run_welch_anova(groups, lib)]
             ELSE [exc |-> "none", name |-> "kruskal_wallis",
                   result |-> _run_kruskal_wallis(groups, lib)]

\* the outcomes the routine of the branch select_continuous_test takes can have
ContinuousLibFor(d, var0, categories_order0, normality_tests_) ==
    LET var == Lower(var0)
        groups == GroupsLoop(d, var, LowerAll(categories_order0))
    IN  IF var \notin Columns \/ Len(groups) < 2 THEN {NaN}
        ELSE ContinuousLib(
                ContinuousTestName(Len(groups), NormalGroups(normality_tests_, var)),
                groups, var)

\* the value of column var in a row (a level of a categorical variable)
Cell(row, var) == IF var = "x" THEN row.x ELSE row.lev

\* df[var].dropna().unique() as a set
LevelSet(d, var) == {Cell(d[i], var) : i \in {j \in 1..Len(d) : ~IsNA(d[j], var)}}

\* pd.crosstab(df[var], df[gender_col]) restricted to the requested columns:
\* a row per observed level, a column per requested gender observed with a
\* non-missing value of var, n the cell counts
ContingencyTable(d, var, categories_order) ==
    LET rows == LevelSet(d, var)
        cols == {g \in Range(categories_order) :
                    \E i \in 1..Len(d) : d[i].gender = g /\ ~IsNA(d[i], var)}
    IN  [rows |-> rows, cols |-> cols,
         n |-> [c \in rows \X cols |->
                  Cardinality({i \in 1..Len(d) :
                      /\ ~IsNA(d[i], var)
                      /\ Cell(d[i], var) = c[1]
                      /\ d[i].gender = c[2]})]]

RECURSIVE SumOver(_, _)
SumOver(f, S) ==
    IF S = {} THEN 0
    ELSE LET a == CHOOSE b \in S : TRUE IN f[a] + SumOver(f, S \ {a})

RowSum(t, l) == SumOver([g \in t.cols |-> t.n[<<l, g>>]], t.cols)
ColSum(t, g) == SumOver([l \in t.rows |-> t.n[<<l, g>>]], t.rows)
Total(t) == SumOver([l \in t.rows |-> RowSum(t, l)], t.rows)

\* chi2_contingency raises ValueError when an expected frequency is zero
ExpectedHasZero(t) ==
    \E l \in t.rows, g \in t.cols : RowSum(t, l) * ColSum(t, g) = 0

MinExpected == 5
\* expected.min() < 5, expected = row sum * column sum / total
MinExpectedSmall(t) ==
    \E l \in t.rows, g \in t.cols :
        RowSum(t, l) * ColSum(t, g) < MinExpected * Total(t)

Is2x2(t) == Cardinality(t.rows) = 2 /\ Cardinality(t.cols) = 2

_run_chi_square(t, warning, lib) ==
    IF ExpectedHasZero(t) THEN ErrorDict("chi-square test")
    ELSE [statistic |-> Float, p |-> lib,
          df |-> IntV((Cardinality(t.rows) - 1) * (Cardinality(t.cols) - 1)),
          assumptions_met |-> ~warning,
          note |-> IF warning
                   THEN <<"Chi-square test of independence",
                          "(some expected frequencies < 5, interpret with caution)">>
                   ELSE <<"Chi-square test of independence">>]

_run_fisher_exact(t, lib) ==
    IF ~Is2x2(t)
    THEN [statistic |-> NaN, p |-> NaN, df |-> None, assumptions_met |-> FALSE,
          note |-> <<"Fisher's exact test only available for 2x2 tables">>]
    ELSE [statistic |-> Float, p |-> lib, df |-> None, assumptions_met |-> TRUE,
          note |-> <<"Fisher's exact test (2x2 table)">>]

\* select_categorical_test: [exc, name, result]; exc = "ValueError" is the
\* exception of the unguarded chi2_contingency call of line 98
select_categorical_test(d, var0, categories_order0, lib) ==
    LET var == Lower(var0)
        categories_order == LowerAll(categories_order0)
        contingency_table == ContingencyTable(d, var, categories_order)
    IN  IF var \notin Columns
        THEN [exc |-> "none", name |-> "insufficient_data",
              result |-> [note |-> <<"Variable not found in DataFrame">>]]
        ELSE IF \/ Cardinality(contingency_table.rows) < 2
                \/ Cardinality(contingency_table.cols) < 2
        THEN [exc |-> "none", name |-> "insufficient_data",
              result |-> [note |-> <<"Insufficient data for contingency table">>]]
        ELSE IF ExpectedHasZero(contingency_table)
        THEN [exc |-> "ValueError", name |-> "", result |-> [note |-> <<>>]]
        ELSE IF MinExpectedSmall(contingency_table)
        THEN IF Is2x2(contingency_table)
             THEN [exc |-> "none", name |-> "fisher_exact",
                   result |-> _run_fisher_exact(contingency_table, lib)]
             ELSE [exc |-> "none", name |-> "chi_square",
                   result |-> _run_chi_square(contingency_table, TRUE, lib)]
        ELSE [exc |-> "none", name |-> "chi_square",
              result |-> _run_chi_square(contingency_table, FALSE, lib)]

(***************************************************************************)
(* services/summarize.py: the two summarizers.  A suppressed field is a    *)
(* marker string; a reported statistic is Float (its value is not tracked),*)
(* a reported count is IntV(n), a percentage is kept in tenths of a        *)
(* percent.                                                                *)
(***************************************************************************)
\* f"<{suppress_threshold}"
CountMarker(threshold) == [k |-> "marker", text |-> <<"<", threshold>>]
\* "<threshold"
ThresholdMarker == [k |-> "marker", text |-> <<"<threshold">>]
IsMarker(v) == v.k = "marker"

\* fault variant of ContinuousRow: a small group has its count masked but
\* its statistics are still computed
ContinuousRowCountOnly(d, var, gender, weight_col, suppress_threshold) ==
    LET n == Len(VarData(d, var, gender))
    IN  [gender |-> gender,
         n |-> IF n < suppress_threshold
               THEN CountMarker(suppress_threshold) ELSE IntV(n),
         mean |-> Float, sd |-> IF n < 2 THEN NaN ELSE Float,
         median |-> Float, iqr |-> Float, min |-> Float, max |-> Float]

\* the body of the loop of summarize_continuous_variable for one gender
ContinuousRow(d, var, gender, weight_col, suppress_threshold) ==
    LET var_data == VarData(d, var, gender)
        n == Len(var_data)
        weighted == /\ weight_col # "None"
                    /\ weight_col \in Columns
                    /\ Len(VarData(d, weight_col, gender)) = n
    IN  IF n < suppress_threshold
        THEN [gender |-> gender, n |-> CountMarker(suppress_threshold),
              mean |-> ThresholdMarker, sd |-> ThresholdMarker,
              median |-> ThresholdMarker, iqr |-> ThresholdMarker,
              min |-> ThresholdMarker, max |-> ThresholdMarker]
        ELSE [gender |-> gender, n |-> IntV(n),
              mean |-> Float,
              sd |-> IF ~weighted /\ n < 2 THEN NaN ELSE Float,
              median |-> Float, iqr |-> Float, min |-> Float, max |-> Float]

RECURSIVE ContinuousRows(_, _, _, _, _)
ContinuousRows(d, var, order, weight_col, suppress_threshold) ==
    IF order = <<>> THEN <<>>
    ELSE LET gender == Head(order)
             rest == ContinuousRows(d, var, Tail(order), weight_col, suppress_threshold)
         IN  IF GenderPresent(d, gender) /\ Len(VarData(d, var, gender)) > 0
             THEN <<ContinuousRow(d, var, gender, weight_col, suppress_threshold)>> \o rest
             ELSE rest

\* summarize_continuous_variable: [exc, value]; the mean of a text column
\* raises TypeError once a group is large enough to be reported
summarize_continuous_variable(d, var0, categories_order0, weight_col, suppress_threshold) ==
    LET var == Lower(var0)
        categories_order == LowerAll(categories_order0)
        stats_list == ContinuousRows(d, var, categories_order, weight_col,
                                     suppress_threshold)
    IN  IF var \notin Columns THEN [exc |-> "none", value |-> <<>>]
        ELSE IF /\ ~IsNumericColumn(var)
                /\ \E i \in 1..Len(stats_list) : ~IsMarker(stats_list[i].n)
        THEN [exc |-> "TypeError", value |-> <<>>]
        ELSE [exc |-> "none", value |-> stats_list]

\* round(n / gender_total * 100, 1) in tenths of a percent, ties to even
RoundPct(n, gender_total) ==
    LET q == (n * 1000) \div gender_total
        r2 == 2 * ((n * 1000) % gender_total)
    IN  IF r2 > gender_total \/ (r2 = gender_total /\ q % 2 = 1) THEN q + 1 ELSE q

\* df[var].dropna().unique(): the levels in order of first appearance
RECURSIVE UniqueLevels(_, _, _)
UniqueLevels(d, var, seen) ==
    IF d = <<>> THEN <<>>
    ELSE IF IsNA(Head(d), var) \/ Cell(Head(d), var) \in seen
    THEN UniqueLevels(Tail(d), var, seen)
    ELSE <<Cell(Head(d), var)>>
         \o UniqueLevels(Tail(d), var, seen \cup {Cell(Head(d), var)})

\* the cell of one (gender, level): the inner loop body
CategoricalCell(d, var, gender, level, suppress_threshold) ==
    LET gender_data == GenderData(d, gender)
        gender_total == Len(gender_data)
        n == Len(SelectSeq(gender_data,
                           LAMBDA r : ~IsNA(r, var) /\ Cell(r, var) = level))
    IN  IF n < suppress_threshold
        THEN [level |-> level, gender |-> gender,
              n |-> CountMarker(suppress_threshold), pct |-> ThresholdMarker]
        ELSE [level |-> level, gender |-> gender, n |-> IntV(n),
              pct |-> IntV(IF gender_total > 0 THEN RoundPct(n, gender_total) ELSE 0)]

RECURSIVE CategoricalRows(_, _, _, _, _)
CategoricalRows(d, var, order, all_values, suppress_threshold) ==
    IF order = <<>> THEN <<>>
    ELSE LET gender == Head(order)
             rest == CategoricalRows(d, var, Tail(order), all_values, suppress_threshold)
         IN  IF GenderPresent(d, gender)
             THEN [i \in 1..Len(all_values) |->
                      CategoricalCell(d, var, gender, all_values[i], suppress_threshold)]
                  \o rest
             ELSE rest

summarize_categorical_variable(d, var0, categories_order0, weight_col, suppress_threshold) ==
    LET var == Lower(var0)
        categories_order == LowerAll(categories_order0)
    IN  IF var \notin Columns THEN <<>>
        ELSE CategoricalRows(d, var, categories_order, UniqueLevels(d, var, {}),
                             suppress_threshold)

(***************************************************************************)
(* services/effects.py: Cohen's d, Hedges' g and the odds ratio, on the   *)
(* observations of two groups and on the cells of a 2x2 table.             *)
(***************************************************************************)
\* group.sum(): the observations added from the left, each sum rounded
RECURSIVE SeriesSum(_)
SeriesSum(group) ==
    IF group = <<>> THEN DZero
    ELSE DAdd(SeriesSum(SubSeq(group, 1, Len(group) - 1)), group[Len(group)])

\* group.mean(): the sum divided by the count
SeriesMean(group) == DDivInt(SeriesSum(group), Len(group))

\* group.std(ddof=1) == 0: the variance is the sum of the squares of
\* (mean - value), so it is zero when every value equals the computed mean
StdIsZero(group) == \A i \in 1..Len(group) : group[i] = SeriesMean(group)

\* _calculate_cohens_d on two series of doubles: None when a group has
\* fewer than two observations or pooled_std == 0, a number otherwise
\* (pooled_std is zero when both computed standard deviations are)
_calculate_cohens_d(group1, group2) ==
    IF Len(group1) < 2 \/ Len(group2) < 2 THEN None
    ELSE IF StdIsZero(group1) /\ StdIsZero(group2) THEN None
    ELSE Float

\* the bias correction factor 1 - 3 / (4 * (n1 + n2) - 9) as the pair
\* <<numerator, denominator>> of (4n - 12) / (4n - 9)
HedgesCorrection(n1, n2) == <<4 * (n1 + n2) - 12, 4 * (n1 + n2) - 9>>

\* _calculate_hedges_g: None when Cohen's d is, else cohens_d * correction
_calculate_hedges_g(group1, group2) ==
    IF _calculate_cohens_d(group1, group2) = None THEN None
    ELSE [k |-> "product", d |-> _calculate_cohens_d(group1, group2),
          correction |-> HedgesCorrection(Len(group1), Len(group2))]

\* the two-group branch of calculate_continuous_effect_sizes (lines 48-68):
\* an entry for each of the two that is not None
TwoGroupEffects(group1, group2) ==
    (IF _calculate_cohens_d(group1, group2) = None THEN <<>>
     ELSE <<[name |-> "Cohen's d", value |-> _calculate_cohens_d(group1, group2)]>>)
    \o (IF _calculate_hedges_g(group1, group2) = None THEN <<>>
        ELSE <<[name |-> "Hedges' g", value |-> _calculate_hedges_g(group1, group2)]>>)

\* _calculate_odds_ratio on the cells a, b / c, d: (None, None, None) when b
\* or c is zero.  Otherwise or_value = a * d / (b * c); with a and d not
\* zero se_log_or is finite and positive and the bounds are
\* exp(log_or -/+ 1.96 * se_log_or).  With a or d zero or_value is 0.0,
\* log_or is -inf and se_log_or is inf (numpy warns, it does not raise), so
\* ci_lower = exp(-inf) = 0.0 and ci_upper = exp(-inf + inf) = NaN
_calculate_odds_ratio(a, b, c, d) ==
    IF b = 0 \/ c = 0
    THEN [or_value |-> None, ci_lower |-> None, ci_upper |-> None]
    ELSE IF a = 0 \/ d = 0
    THEN [or_value |-> [k |-> "ratio", num |-> 0, den |-> b * c],
          ci_lower |-> DZero,
          ci_upper |-> NaN]
    ELSE [or_value |-> [k |-> "ratio", num |-> a * d, den |-> b * c],
          ci_lower |-> [k |-> "exp", of |-> "log_or - 1.96 * se"],
          ci_upper |-> [k |-> "exp", of |-> "log_or + 1.96 * se"]]

\* the odds ratio branch of calculate_categorical_effect_sizes (lines
\* 131-141): an entry when odds_ratio is not None
OddsRatioEffects(a, b, c, d) ==
    LET r == _calculate_odds_ratio(a, b, c, d)
    IN  IF r.or_value = None THEN <<>>
        ELSE <<[name |-> "Odds Ratio", value |-> r.or_value,
                ci_lower |-> r.ci_lower, ci_upper |-> r.ci_upper]>>

(***************************************************************************)
(* services/effects.py: which effect sizes are reported (their values are  *)
(* not tracked).                                                           *)
(***************************************************************************)
Effect(name) == [name |-> name, value |-> Float]

\* _calculate_cohens_d returns a number: both groups have two observations
\* and the pooled standard deviation is not zero (a text column raises
\* inside the try and yields None)
CohensDDefined(group1, group2, var) ==
    /\ Len(group1) >= 2
    /\ Len(group2) >= 2
    /\ IsNumericColumn(var)
    /\ ~(Constant(group1, var) /\ Constant(group2, var))

calculate_continuous_effect_sizes(d, var0, categories_order0, test_name) ==
    LET var == Lower(var0)
        groups == GroupsLoop(d, var, LowerAll(categories_order0))
    IN  IF var \notin Columns THEN <<>>
        ELSE IF Len(groups) < 2 THEN <<>>
        ELSE IF Len(groups) = 2
        THEN IF CohensDDefined(groups[1].data, groups[2].data, var)
             THEN <<Effect("Cohen's d"), Effect("Hedges' g")>>
             ELSE <<>>
        ELSE IF IsNumericColumn(var)
             THEN <<Effect("Eta-squared"), Effect("Epsilon-squared")>>
             ELSE <<>>

\* the levels / genders of a table in the sorted order crosstab gives them
LevelOrder == <<"a", "b", "c">>
GenderOrder == <<"female", "male", "missing">>
SortedBy(order, S) == SelectSeq(order, LAMBDA v : v \in S)

\* _calculate_odds_ratio returns a number: b and c are not zero
OddsRatioDefined(t) ==
    LET r == SortedBy(LevelOrder, t.rows)
        c == SortedBy(GenderOrder, t.cols)
    IN  /\ Is2x2(t)
        /\ t.n[<<r[1], c[2]>>] # 0
        /\ t.n[<<r[2], c[1]>>] # 0

calculate_categorical_effect_sizes(d, var0, categories_order0, test_name) ==
    LET var == Lower(var0)
        t == ContingencyTable(d, var, LowerAll(categories_order0))
    IN  IF var \notin Columns THEN <<>>
        ELSE IF Cardinality(t.rows) < 2 \/ Cardinality(t.cols) < 2 THEN <<>>
        ELSE (IF ExpectedHasZero(t) THEN <<>> ELSE <<Effect("Cramer's V")>>)
             \o (IF OddsRatioDefined(t) THEN <<Effect("Odds Ratio")>> ELSE <<>>)

(***************************************************************************)
(* routers/analyze.py: analyze_data, one request.                          *)
(***************************************************************************)
\* a missing entry of the raw gender column
GenderNaN == "<NaN>"

\* df[gender_col].astype(str) (line 57): a missing entry becomes 'nan'
AsStr(raw) == IF raw = GenderNaN THEN "nan" ELSE raw

\* Series.map(dict).fillna('missing') on one value: the target of the entry
\* for raw (a later entry of the list replaces an earlier one), 'missing'
\* for a value without an entry
MapTarget(raw, gender_map) ==
    LET hits == {i \in 1..Len(gender_map) : gender_map[i].from_value = raw}
    IN  IF hits = {} THEN "missing"
        ELSE gender_map[CHOOSE i \in hits : \A j \in hits : j <= i].to_value

\* fault variant of NormalizeGender: a value without an entry is kept
NormalizeGenderKeepRaw(raw, gender_map) ==
    LET hits == {i \in 1..Len(gender_map) : gender_map[i].from_value = AsStr(raw)}
    IN  Lower(IF hits = {} THEN AsStr(raw) ELSE MapTarget(AsStr(raw), gender_map))

\* lines 57-65: the value as text, mapped, 'missing' for a value without an
\* entry, lower-cased
NormalizeGender(raw, gender_map) == Lower(MapTarget(AsStr(raw), gender_map))

ApplyGenderMap(d, gender_map) ==
    [i \in 1..Len(d) |-> [d[i] EXCEPT !.gender = NormalizeGender(d[i].gender, gender_map)]]

\* services/summarize.py apply_gender_mapping: the same map without the
\* conversion to text and without lower-casing
apply_gender_mapping(d, gender_map) ==
    [i \in 1..Len(d) |-> [d[i] EXCEPT !.gender = MapTarget(d[i].gender, gender_map)]]

\* a row has a missing value in some column (what df.dropna() drops)
AnyMissing(r) == r.gender = GenderNaN \/ r.x = XNaN \/ r.lev = LevNaN

\* the non-missing values of the numeric column, ascending
RECURSIVE SortedInsert(_, _)
SortedInsert(s, v) ==
    IF s = <<>> THEN <<v>>
    ELSE IF v <= Head(s) THEN <<v>> \o s
    ELSE <<Head(s)>> \o SortedInsert(Tail(s), v)

RECURSIVE XValues(_)
XValues(d) ==
    IF d = <<>> THEN <<>>
    ELSE IF Head(d).x = XNaN THEN XValues(Tail(d))
    ELSE SortedInsert(XValues(Tail(d)), Head(d).x)

RECURSIVE SeqSum(_)
SeqSum(s) == IF s = <<>> THEN 0 ELSE Head(s) + SeqSum(Tail(s))

\* df[var].mean() and df[var].median(); the values of the model's tables
\* are even numbers, at most two of them beside a missing one, so both are
\* whole numbers
XMean(xs) == SeqSum(xs) \div Len(xs)
XMedian(xs) ==
    IF Len(xs) % 2 = 1 THEN xs[(Len(xs) + 1) \div 2]
    ELSE (xs[Len(xs) \div 2] + xs[Len(xs) \div 2 + 1]) \div 2

\* df[var].mode()[0]: the most frequent value, the smallest one on a tie
XMode(xs) ==
    LET count(v) == Cardinality({i \in 1..Len(xs) : xs[i] = v})
    IN  xs[CHOOSE i \in 1..Len(xs) :
              /\ \A j \in 1..Len(xs) : count(xs[j]) <= count(xs[i])
              /\ \A j \in 1..Len(xs) :
                    count(xs[j]) = count(xs[i]) => xs[i] <= xs[j]]

\* df[var] = df[var].fillna(v) for the numeric column
FillX(d, v) == [i \in 1..Len(d) |-> IF d[i].x = XNaN THEN [d[i] EXCEPT !.x = v] ELSE d[i]]

\* the mode of the text column: its levels of the model are 'a' only
FillLev(d) ==
    IF \A i \in 1..Len(d) : d[i].lev = LevNaN THEN d
    ELSE [i \in 1..Len(d) |->
            IF d[i].lev = LevNaN THEN [d[i] EXCEPT !.lev = "a"] ELSE d[i]]

\* one iteration of `for var, method in impute_config.items()` (lines 44-53);
\* item is [key, method]: the dict key and its value (a method name, or
\* "list" for the list of names that ImputeConfig.dict() holds)
ImputeOne(d, item) ==
    LET xs == XValues(d)
    IN  IF item.key \notin {"x", "lev"} THEN d
        ELSE IF item.method = "mean" /\ item.key = "x"
        THEN (IF xs = <<>> THEN d ELSE FillX(d, XMean(xs)))
        ELSE IF item.method = "median" /\ item.key = "x"
        THEN (IF xs = <<>> THEN d ELSE FillX(d, XMedian(xs)))
        ELSE IF item.method = "mode"
        THEN (IF item.key = "lev" THEN FillLev(d)
              ELSE IF xs = <<>> THEN d ELSE FillX(d, XMode(xs)))
        ELSE d

RECURSIVE ImputeLoop(_, _)
ImputeLoop(d, items) ==
    IF items = <<>> THEN d ELSE ImputeLoop(ImputeOne(d, Head(items)), Tail(items))

\* fault variant of handle_missing_data: listwise drops only the rows in
\* which every value is missing
handle_missing_data_how_all(d, missing_policy, impute_config) ==
    IF missing_policy = "listwise"
    THEN SelectSeq(d, LAMBDA r : ~(r.x = XNaN /\ r.lev = LevNaN))
    ELSE d

\* fault variant of handle_missing_data: pairwise and flag fall through to
\* the imputation
handle_missing_data_fall_through(d, missing_policy, impute_config) ==
    IF missing_policy = "listwise"
    THEN SelectSeq(d, LAMBDA r : ~AnyMissing(r))
    ELSE ImputeLoop(d, impute_config)

\* services/summarize.py handle_missing_data: listwise drops every row with a
\* missing value; pairwise and flag return the copy unchanged; only another
\* policy string reaches the imputation (lines 42-55)
handle_missing_data(d, missing_policy, impute_config) ==
    IF missing_policy = "listwise"
    THEN SelectSeq(d, LAMBDA r : ~AnyMissing(r))
    ELSE IF missing_policy \in {"pairwise", "flag"} THEN d
    ELSE ImputeLoop(d, impute_config)

\* dict.get(key, default)
Get(dict, key, default) == IF key \in DOMAIN dict THEN dict[key] ELSE default

\* None or NaN becomes the sentinel "N/A" (lines 95-101)
Sentinel(v) == IF v = None \/ v = NaN THEN NA ELSE v

\* TestResult(...).dict() of lines 94-114; p_fdr = None and fdr_method =
\* "None" stand for the keys the corrector has not set
ToTestResult(test_name, test_result_dict) ==
    [name |-> test_name,
     p |-> Sentinel(Get(test_result_dict, "p", DZero)),
     statistic |-> Sentinel(Get(test_result_dict, "statistic", DZero)),
     df |-> Get(test_result_dict, "df", None),
     assumptions_met |-> Get(test_result_dict, "assumptions_met", TRUE),
     note |-> test_result_dict.note,
     p_fdr |-> None,
     fdr_method |-> "None"]

\* fault variant of ContinuousResult: the groups below the suppression
\* threshold are removed before the test is selected and the effect sizes
\* are computed
ContinuousResultSuppressedFirst(d, var, r, normality_tests_, lib) ==
    LET kept == SelectSeq(d, LAMBDA row :
                    Len(VarData(d, var, row.gender)) >= r.suppress_threshold)
        var_stats == summarize_continuous_variable(d, var, r.categories_order,
                         r.weight_col, r.suppress_threshold)
        sel == select_continuous_test(kept, var, r.categories_order,
                                      normality_tests_, lib)
        effect_sizes == calculate_continuous_effect_sizes(kept, var,
                            r.categories_order, sel.name)
    IN  IF var_stats.exc # "none" THEN [exc |-> var_stats.exc]
        ELSE [exc |-> "none",
              value |-> [var |-> var, table |-> var_stats.value,
                         test |-> ToTestResult(sel.name, sel.result),
                         effects |-> effect_sizes]]

\* the body of the loop over vars_continuous (lines 82-126): [exc, value]
ContinuousResult(d, var, r, normality_tests_, lib) ==
    LET var_stats == summarize_continuous_variable(d, var, r.categories_order,
                         r.weight_col, r.suppress_threshold)
        sel == select_continuous_test(d, var, r.categories_order,
                                      normality_tests_, lib)
        effect_sizes == calculate_continuous_effect_sizes(d, var,
                            r.categories_order, sel.name)
    IN  IF var_stats.exc # "none" THEN [exc |-> var_stats.exc]
        ELSE [exc |-> "none",
              value |-> [var |-> var, table |-> var_stats.value,
                         test |-> ToTestResult(sel.name, sel.result),
                         effects |-> effect_sizes]]

\* the body of the loop over vars_categorical (lines 130-174): [exc, value]
CategoricalResult(d, var, r, lib) ==
    LET var_levels == summarize_categorical_variable(d, var, r.categories_order,
                          r.weight_col, r.suppress_threshold)
        sel == select_categorical_test(d, var, r.categories_order, lib)
        effect_sizes == calculate_categorical_effect_sizes(d, var,
                            r.categories_order, sel.name)
    IN  IF sel.exc # "none" THEN [exc |-> sel.exc]
        ELSE [exc |-> "none",
              value |-> [var |-> var, table |-> var_levels,
                         test |-> ToTestResult(sel.name, sel.result),
                         effects |-> effect_sizes]]

\* where analyze_data goes after the normality loop / a loop iteration
PcAfter(n_cont, n_cat, r) ==
    IF n_cont < Len(r.vars_continuous) THEN "continuous"
    ELSE IF n_cat < Len(r.vars_categorical) THEN "categorical"
    ELSE IF r.fdr THEN "fdr"
    ELSE "respond"

\* lines 47-69: the working copy, gender mapping, missing-data policy
AnalyzeStart ==
    /\ pc = "request"
    /\ df' = handle_missing_data(
                ApplyGenderMap(session, req.gender_map), req.missing_policy,
                req.impute)
    /\ pc' = "normality"
    /\ UNCHANGED <<cache, now>>
    /\ UNCHANGED <<session, req, normality_tests, continuous_results,
                   categorical_results, out, p_values, q_values, corrected>>

\* what shapiro can yield for a group: p = 0.001, p = 0.05, or NaN
NormalityOutcomes == {P001, D005, NaN}

\* lines 75-78: the normality loop over vars_continuous.  The only numeric
\* column is x, so one oracle serves every requested variable
RECURSIVE NormalityAll(_, _, _, _)
NormalityAll(d, vars_, order, oracle) ==
    IF vars_ = <<>> THEN <<>>
    ELSE test_normality(d, Lower(Head(vars_)), order, oracle)
         \o NormalityAll(d, Tail(vars_), order, oracle)

AnalyzeNormality ==
    /\ pc = "normality"
    /\ \E oracle \in [NormalityTested(df, "x", req.categories_order)
                        -> NormalityOutcomes] :
          normality_tests' = NormalityAll(df, req.vars_continuous,
                                          req.categories_order, oracle)
    /\ pc' = PcAfter(0, 0, req)
    /\ UNCHANGED <<cache, now>>
    /\ UNCHANGED <<session, df, req, continuous_results, categorical_results,
                   out, p_values, q_values, corrected>>

\* one iteration of the loop over vars_continuous
AnalyzeContinuous ==
    /\ pc = "continuous"
    /\ LET var == Lower(req.vars_continuous[Len(continuous_results) + 1])
       IN  \E lib \in ContinuousLibFor(df, var, req.categories_order, normality_tests) :
              LET res == ContinuousResult(df, var, req, normality_tests, lib)
              IN  IF res.exc # "none"
                  THEN /\ pc' = "error"
                       /\ UNCHANGED continuous_results
                  ELSE /\ continuous_results' = Append(continuous_results, res.value)
                       /\ pc' = PcAfter(Len(continuous_results) + 1, 0, req)
    /\ UNCHANGED <<cache, now>>
    /\ UNCHANGED <<session, df, req, normality_tests, categorical_results, out,
                   p_values, q_values, corrected>>

\* one iteration of the loop over vars_categorical
AnalyzeCategorical ==
    /\ pc = "categorical"
    /\ LET var == Lower(req.vars_categorical[Len(categorical_results) + 1])
       IN  \E lib \in TestPs :
              LET res == CategoricalResult(df, var, req, lib)
              IN  IF res.exc # "none"
                  THEN /\ pc' = "error"
                       /\ UNCHANGED categorical_results
                  ELSE /\ categorical_results' = Append(categorical_results, res.value)
                       /\ pc' = PcAfter(Len(req.vars_continuous),
                                        Len(categorical_results) + 1, req)
    /\ UNCHANGED <<cache, now>>
    /\ UNCHANGED <<session, df, req, normality_tests, continuous_results, out,
                   p_values, q_values, corrected>>

\* lines 177-182: if request.fdr
AnalyzeFdr ==
    /\ pc = "fdr"
    /\ LET corrected_results ==
               apply_fdr_to_analysis_results(continuous_results,
                                             categorical_results, "BH")
       IN  IF corrected_results.exc # "none"
           THEN /\ pc' = "error"
                /\ UNCHANGED <<continuous_results, categorical_results>>
           ELSE /\ continuous_results' = corrected_results.continuous_results
                /\ categorical_results' = corrected_results.categorical_results
                /\ pc' = "respond"
    /\ UNCHANGED <<cache, now>>
    /\ UNCHANGED <<session, df, req, normality_tests, out, p_values, q_values,
                   corrected>>

\* lines 184-237: missingness, bias assessment, export files, the response
AnalyzeRespond ==
    /\ pc = "respond"
    /\ pc' = "done"
    /\ UNCHANGED <<cache, now>>
    /\ UNCHANGED <<session, df, req, normality_tests, continuous_results,
                   categorical_results, out, p_values, q_values, corrected>>

(***************************************************************************)
(* Spec: one analyze_data request on a session's dataset.                  *)
(***************************************************************************)
Rows(g, xv, lv, n) == [i \in 1..n |-> Row(g, xv, lv)]

Idle == [op |-> "none"]

\* the uploaded tables: raw genders F, M and an unmapped U.  F has at most
\* MaxRunRows rows (x = 0 with level a, possibly one x = 1 with level b and
\* one with x missing), M up to MaxThreshold rows, U at most one
RunDatasets ==
    {Rows("F", 0, "a", fa) \o Rows("F", 1, "b", fb) \o Rows("F", XNaN, "b", fn)
     \o Rows("M", 0, "a", ma) \o Rows("U", 0, "c", u) :
        fa \in 0..MaxRunRows, fb \in 0..1, fn \in 0..1,
        ma \in 0..MaxThreshold, u \in 0..1}

RunGenderMap ==
    <<[from_value |-> "F", to_value |-> "Female"],
      [from_value |-> "M", to_value |-> "male"]>>

\* request.impute.dict() of an ImputeConfig that names x for the mean
RunImpute == <<[key |-> "mean", method |-> "list"]>>

\* the requests: a variable zz that is no column is asked for before x and lev
RunRequests ==
    {[gender_map |-> RunGenderMap,
      categories_order |-> order,
      vars_continuous |-> <<"zz", "X">>,
      vars_categorical |-> <<"zz", "Lev">>,
      weight_col |-> "None",
      missing_policy |-> policy,
      impute |-> RunImpute,
      suppress_threshold |-> threshold,
      fdr |-> fdr] :
        order \in {<<"female", "male">>, <<"female", "male", "other", "missing">>},
        policy \in {"listwise", "pairwise", "flag"},
        threshold \in 1..MaxThreshold,
        fdr \in BOOLEAN}

Init ==
    /\ pc = "request"
    /\ session \in {d \in RunDatasets : Len(GenderData(d, "F")) <= MaxRunRows}
    /\ req \in RunRequests
    /\ df = <<>>
    /\ normality_tests = <<>>
    /\ continuous_results = <<>>
    /\ categorical_results = <<>>
    /\ out = Idle
    /\ p_values = <<>>
    /\ q_values = <<>>
    /\ corrected = Idle
    /\ cache = DataCache(1, 0)
    /\ now = 0

Next ==
    \/ AnalyzeStart
    \/ AnalyzeNormality
    \/ AnalyzeContinuous
    \/ AnalyzeCategorical
    \/ AnalyzeFdr
    \/ AnalyzeRespond

Spec == Init /\ [][Next]_vars

(***************************************************************************)
(* SpecFDR: the corrector called on a list of p-values, and on the results *)
(* of a continuous and a categorical family.                               *)
(***************************************************************************)
\* the doubles 0.002 and 0.0027
P002 == Dbl(34359738, 49392124, -61)
P0027 == Dbl(46385646, 106944686, -61)

\* what a caller can pass as a p-value: defined ones, NaN, None
FdrValues == {P001, P002, P0027, DOne, NaN, None}

\* a result dict as apply_fdr_to_analysis_results reads it: as analyze_data
\* builds it (wrap, through TestResult) or with the raw p-value
ResultOf(var, p, wrap) ==
    [var |-> var, table |-> <<>>,
     test |-> IF wrap
              THEN ToTestResult("mann_whitney",
                       [p |-> p, statistic |-> Float, note |-> <<>>])
              ELSE [ToTestResult("mann_whitney",
                       [p |-> DOne, statistic |-> Float, note |-> <<>>])
                    EXCEPT !.p = p],
     effects |-> <<>>]

ResultsOf(ps, wrap) == [i \in 1..Len(ps) |-> ResultOf(<<"v", i>>, ps[i], wrap)]

InitFDR ==
    /\ pc = "fdr_call"
    /\ p_values \in SeqsUpTo(FdrValues, MaxTests)
    /\ q_values \in SeqsUpTo({P001, NaN}, MaxCatTests)
    /\ session = <<>>
    /\ df = <<>>
    /\ req = Idle
    /\ normality_tests = <<>>
    /\ continuous_results = <<>>
    /\ categorical_results = <<>>
    /\ out = Idle
    /\ corrected = Idle
    /\ cache = DataCache(1, 0)
    /\ now = 0

\* apply_fdr_correction(p_values)
CallApplyFdrCorrection ==
    /\ pc = "fdr_call"
    /\ corrected' = [op |-> "apply_fdr_correction",
                     ret |-> apply_fdr_correction(p_values)]
    /\ pc' = "fdr_returned"
    /\ UNCHANGED <<cache, now>>
    /\ UNCHANGED <<session, df, req, normality_tests, continuous_results,
                   categorical_results, out, p_values, q_values>>

\* apply_fdr_to_analysis_results(continuous_results, categorical_results)
CallApplyFdrToResults ==
    /\ pc = "fdr_call"
    /\ \E wrap \in BOOLEAN :
          /\ continuous_results' = ResultsOf(p_values, wrap)
          /\ categorical_results' = ResultsOf(q_values, wrap)
          /\ corrected' = [op |-> "apply_fdr_to_analysis_results",
                           ret |-> apply_fdr_to_analysis_results(
                                       ResultsOf(p_values, wrap),
                                       ResultsOf(q_values, wrap), "BH")]
    /\ pc' = "fdr_returned"
    /\ UNCHANGED <<cache, now>>
    /\ UNCHANGED <<session, df, req, normality_tests, out, p_values, q_values>>

NextFDR ==
    \/ CallApplyFdrCorrection
    \/ CallApplyFdrToResults

SpecFDR == InitFDR /\ [][NextFDR]_vars

(***************************************************************************)
(* SpecFn: test_normality, the two selectors and the two summarizers       *)
(* called on a prepared table (genders already normalized).                *)
(***************************************************************************)
\* n rows of gender g whose x alternates 0, 1 (spread) or is 0 throughout
XRows(g, n, spread) ==
    [i \in 1..n |-> Row(g, IF spread THEN i % 2 ELSE 0, "a")]

\* tables for a continuous variable: up to MaxGroup values of x per gender,
\* and possibly a row of female whose x is missing
ContinuousDatasets ==
    {XRows("female", nf, spread) \o Rows("female", XNaN, "a", fn)
     \o XRows("male", nm, spread) \o XRows("missing", nu, spread) :
        nf \in 0..MaxGroup, nm \in 0..MaxGroup, nu \in 0..MaxGroup,
        fn \in 0..1, spread \in BOOLEAN}

\* tables for a categorical variable: levels a, b in cells of 0, 1 or BigCell
\* rows for female and male, level c for female and for the gender
\* 'missing', and possibly a row of female whose level is missing
CategoricalDatasets ==
    {Rows("female", 0, "a", fa) \o Rows("female", 0, "b", fb)
     \o Rows("female", 0, "c", fc) \o Rows("female", 0, LevNaN, fn)
     \o Rows("male", 0, "a", ma) \o Rows("male", 0, "b", mb)
     \o Rows("missing", 0, "c", uc) :
        fa \in {0, 1, BigCell}, fb \in {0, 1, BigCell}, fc \in {0, BigCell},
        fn \in 0..1, ma \in {0, 1, BigCell}, mb \in {0, 1, BigCell},
        uc \in 0..1}

\* the arguments of the calls: the order of categories, the variables (X is
\* the numeric column, Lev the text column, zz no column), the threshold
FnRequests ==
    {[categories_order |-> order,
      vars_continuous |-> <<"X", "Lev", "zz">>,
      vars_categorical |-> <<"Lev", "zz">>,
      weight_col |-> "None",
      suppress_threshold |-> threshold] :
        order \in {<<"female", "male">>, <<"Female", "male", "missing">>, <<"male">>},
        threshold \in 1..MaxThreshold}

InitFn ==
    /\ pc = "fn"
    /\ df \in ContinuousDatasets \cup CategoricalDatasets
    /\ req \in FnRequests
    /\ session = <<>>
    /\ normality_tests = <<>>
    /\ continuous_results = <<>>
    /\ categorical_results = <<>>
    /\ out = Idle
    /\ p_values = <<>>
    /\ q_values = <<>>
    /\ corrected = Idle
    /\ cache = DataCache(1, 0)
    /\ now = 0

\* normality_tests.extend(test_normality(...)) for every continuous variable
CallTestNormality ==
    /\ pc = "fn"
    /\ \E oracle \in [NormalityTested(df, "x", req.categories_order)
                        -> NormalityOutcomes] :
          normality_tests' = NormalityAll(df, req.vars_continuous,
                                          req.categories_order, oracle)
    /\ pc' = "tested"
    /\ UNCHANGED <<cache, now>>
    /\ UNCHANGED <<session, df, req, continuous_results, categorical_results,
                   out, p_values, q_values, corrected>>

\* select_continuous_test(df, var, 'gender', categories_order, normality_tests)
CallSelectContinuous ==
    /\ pc \in {"fn", "tested"}
    /\ \E i \in 1..Len(req.vars_continuous) :
          LET var == req.vars_continuous[i]
          IN  \E lib \in ContinuousLibFor(df, var, req.categories_order, normality_tests) :
                 out' = [op |-> "select_continuous_test", var |-> Lower(var),
                         lib |-> lib,
                         ret |-> select_continuous_test(df, var,
                                     req.categories_order, normality_tests, lib)]
    /\ pc' = "returned"
    /\ UNCHANGED <<cache, now>>
    /\ UNCHANGED <<session, df, req, normality_tests, continuous_results,
                   categorical_results, p_values, q_values, corrected>>

\* select_categorical_test(df, var, 'gender', categories_order)
CallSelectCategorical ==
    /\ pc = "fn"
    /\ \E i \in 1..Len(req.vars_categorical), lib \in TestPs :
          LET var == req.vars_categorical[i]
          IN  out' = [op |-> "select_categorical_test", var |-> Lower(var),
                      lib |-> lib,
                      ret |-> select_categorical_test(df, var,
                                  req.categories_order, lib)]
    /\ pc' = "returned"
    /\ UNCHANGED <<cache, now>>
    /\ UNCHANGED <<session, df, req, normality_tests, continuous_results,
                   categorical_results, p_values, q_values, corrected>>

\* summarize_continuous_variable(df, var, 'gender', categories_order, ...)
CallSummarizeContinuous ==
    /\ pc = "fn"
    /\ \E i \in 1..Len(req.vars_continuous) :
          LET var == req.vars_continuous[i]
          IN  out' = [op |-> "summarize_continuous_variable", var |-> Lower(var),
                      lib |-> NaN,
                      ret |-> summarize_continuous_variable(df, var,
                                  req.categories_order, req.weight_col,
                                  req.suppress_threshold)]
    /\ pc' = "returned"
    /\ UNCHANGED <<cache, now>>
    /\ UNCHANGED <<session, df, req, normality_tests, continuous_results,
                   categorical_results, p_values, q_values, corrected>>

\* summarize_categorical_variable(df, var, 'gender', categories_order, ...)
CallSummarizeCategorical ==
    /\ pc = "fn"
    /\ \E i \in 1..Len(req.vars_categorical) :
          LET var == req.vars_categorical[i]
          IN  out' = [op |-> "summarize_categorical_variable", var |-> Lower(var),
                      lib |-> NaN,
                      ret |-> [exc |-> "none",
                               value |-> summarize_categorical_variable(df, var,
                                             req.categories_order, req.weight_col,
                                             req.suppress_threshold)]]
    /\ pc' = "returned"
    /\ UNCHANGED <<cache, now>>
    /\ UNCHANGED <<session, df, req, normality_tests, continuous_results,
                   categorical_results, p_values, q_values, corrected>>

NextFn ==
    \/ CallTestNormality
    \/ CallSelectContinuous
    \/ CallSelectCategorical
    \/ CallSummarizeContinuous
    \/ CallSummarizeCategorical

SpecFn == InitFn /\ [][NextFn]_vars

(***************************************************************************)
(* Properties of the selectors (SpecFn).                                   *)
(***************************************************************************)
\* the requested categories with at least one non-missing value of var
GroupsWithData(d, var, order) ==
    {g \in Range(LowerAll(order)) :
        /\ var \in Columns
        /\ \E i \in 1..Len(d) : d[i].gender = g /\ ~IsNA(d[i], var)}

\* some normality result of var has a p-value below 0.05
NormalityRejected(tests, var) ==
    \E i \in 1..Len(tests) :
        /\ tests[i].var = var
        /\ IsNum(tests[i].p)
        /\ DLess(tests[i].p, D005)

LevelsWithData(d, var) ==
    IF var \notin Columns THEN {}
    ELSE {l \in {Cell(d[i], var) : i \in 1..Len(d)} :
            \E i \in 1..Len(d) : ~IsNA(d[i], var) /\ Cell(d[i], var) = l}

\* the selector returned insufficient_data and ran no test
ReturnedInsufficient(ret) ==
    /\ ret.exc = "none"
    /\ ret.name = "insufficient_data"
    /\ "p" \notin DOMAIN ret.result

C2_CategoricalSelection ==
    (/\ out.op = "select_categorical_test"
     /\ Cardinality(LevelsWithData(df, out.var)) >= 2
     /\ Cardinality(GroupsWithData(df, out.var, req.categories_order)) >= 2)
    => LET t == ContingencyTable(df, out.var, LowerAll(req.categories_order))
           small == MinExpectedSmall(t)
           caution == "(some expected frequencies < 5, interpret with caution)"
       IN  /\ out.ret.exc = "none"
           /\ out.ret.name = IF small /\ Is2x2(t) THEN "fisher_exact" ELSE "chi_square"
           /\ out.ret.name = "chi_square" =>
                /\ out.ret.result.assumptions_met = ~small
                /\ (caution \in Range(out.ret.result.note)) = small

\* C4: a call of select_continuous_test or select_categorical_test returns
\* a (name, result) pair and propagates no exception; a result whose
\* p-value is undefined has assumptions_met = false and a note.
C4_SelectorsNeverRaise ==
    out.op \in {"select_continuous_test", "select_categorical_test"}
    => /\ out.ret.exc = "none"
       /\ ("p" \in DOMAIN out.ret.result /\ out.ret.result.p = NaN)
            => /\ out.ret.result.assumptions_met = FALSE
               /\ out.ret.result.note # <<>>

(***************************************************************************)
(* Properties of the summarizers (SpecFn).                                 *)
(***************************************************************************)
\* the number of rows of gender g with a value of var / with level l of var
TrueN(d, var, g) ==
    Cardinality({i \in 1..Len(d) : d[i].gender = g /\ ~IsNA(d[i], var)})
TrueLevelN(d, var, g, l) ==
    Cardinality({i \in 1..Len(d) :
        d[i].gender = g /\ ~IsNA(d[i], var) /\ Cell(d[i], var) = l})

ContinuousFields(row) ==
    <<row.n, row.mean, row.sd, row.median, row.iqr, row.min, row.max>>

\* every field is a marker / the count is the real one and no field is a marker
AllMarkers(fields) == \A i \in 1..Len(fields) : IsMarker(fields[i])
Reported(fields, n) ==
    /\ fields[1] = IntV(n)
    /\ \A i \in 1..Len(fields) : ~IsMarker(fields[i])

\* C6: in the output of summarize_continuous_variable a gender row with n
\* below the threshold has n, mean, sd, median, iqr, min and max all
\* replaced by markers, and in the output of summarize_categorical_variable
\* a (level, gender) cell with n below the threshold has n and pct replaced
\* by markers; a row or cell with n at or above the threshold is reported
\* with its real count and no marker.
C6_SuppressionComplete ==
    /\ (out.op = "summarize_continuous_variable" /\ out.ret.exc = "none")
       => \A i \in 1..Len(out.ret.value) :
            LET row == out.ret.value[i]
                n == TrueN(df, out.var, row.gender)
            IN  IF n < req.suppress_threshold
                THEN AllMarkers(ContinuousFields(row))
                ELSE Reported(ContinuousFields(row), n)
    /\ out.op = "summarize_categorical_variable"
       => \A i \in 1..Len(out.ret.value) :
            LET cell == out.ret.value[i]
                n == TrueLevelN(df, out.var, cell.gender, cell.level)
            IN  IF n < req.suppress_threshold
                THEN AllMarkers(<<cell.n, cell.pct>>)
                ELSE Reported(<<cell.n, cell.pct>>, n)

\* one output of the continuous summarizer holds a suppressed row and a
\* reported row
C6_Witness ==
    /\ out.op = "summarize_continuous_variable"
    /\ out.ret.exc = "none"
    /\ \E i, j \in 1..Len(out.ret.value) :
          /\ IsMarker(out.ret.value[i].n)
          /\ IsMarker(out.ret.value[i].mean)
          /\ ~IsMarker(out.ret.value[j].n)

\* the cells of gender g in the output of the categorical summarizer
CellsOf(value, g) == {i \in 1..Len(value) : value[i].gender = g}

Dist(a, b) == IF a < b THEN b - a ELSE a - b

\* C8: for a gender none of whose cells is suppressed, the percentages that
\* summarize_categorical_variable reports over the levels sum to 100 within
\* rounding tolerance (half a tenth of a percent per level), also when rows
\* of that gender have a missing value of the variable.
C8_PercentagesSumTo100 ==
    out.op = "summarize_categorical_variable"
    => \A g \in Range(LowerAll(req.categories_order)) :
          LET value == out.ret.value
              cells == CellsOf(value, g)
          IN  (cells # {} /\ \A i \in cells : ~IsMarker(value[i].n))
              => 2 * Dist(SumOver([i \in cells |-> value[i].pct.v], cells), 1000)
                    <= Cardinality(cells)

(***************************************************************************)
(* Properties of an analyze_data run (Spec).                               *)
(***************************************************************************)
\* test name, p-value, statistic and effect sizes of a variable's result
TestOutcome(res) ==
    <<res.test.name, res.test.p, res.test.statistic, res.effects>>

\* the variable's result under threshold t, for some outcome of the routine
SameUnderThreshold(res, var, t, continuous) ==
    LET other == [req EXCEPT !.suppress_threshold = t]
    IN  IF continuous
        THEN \E lib \in ContinuousLibFor(df, var, req.categories_order,
                                         normality_tests) :
                LET again == ContinuousResult(df, var, other, normality_tests, lib)
                IN  again.exc = "none" /\ TestOutcome(again.value) = TestOutcome(res)
        ELSE \E lib \in TestPs :
                LET again == CategoricalResult(df, var, other, lib)
                IN  again.exc = "none" /\ TestOutcome(again.value) = TestOutcome(res)

\* C7: the test name, p-value, statistic and effect sizes analyze_data
\* returns for a variable are the ones it produces under every other
\* suppression threshold, while each group with n below the threshold has
\* a row of markers only.
C7_SuppressionDisplayOnly ==
    pc = "done" =>
    /\ \A i \in 1..Len(continuous_results), t \in 1..MaxThreshold :
          SameUnderThreshold(continuous_results[i],
                             Lower(req.vars_continuous[i]), t, TRUE)
    /\ \A i \in 1..Len(categorical_results), t \in 1..MaxThreshold :
          SameUnderThreshold(categorical_results[i],
                             Lower(req.vars_categorical[i]), t, FALSE)
    /\ \A i \in 1..Len(continuous_results) :
          \A j \in 1..Len(continuous_results[i].table) :
             LET row == continuous_results[i].table[j]
             IN  TrueN(df, continuous_results[i].var, row.gender)
                        < req.suppress_threshold
                 => AllMarkers(ContinuousFields(row))

\* a rank-based test was run and an effect size computed for x on three
\* groups while the row of one of them is suppressed
C7_Witness ==
    /\ pc = "done"
    /\ Len(continuous_results) = 2
    /\ continuous_results[2].test.name = "kruskal_wallis"
    /\ IsNum(continuous_results[2].test.p)
    /\ continuous_results[2].effects # <<>>
    /\ \E j \in 1..Len(continuous_results[2].table) :
          IsMarker(continuous_results[2].table[j].mean)

\* every requested variable has its result
AllVariablesDone ==
    /\ Len(continuous_results) = Len(req.vars_continuous)
    /\ Len(categorical_results) = Len(req.vars_categorical)

\* C5: in analyze_data, for either value of the FDR flag, a variable that
\* is absent gets an empty result, and once every requested variable has
\* its result (empty, sentinel or real) the run completes and returns them
\* all: it does not fail.
C5_NoVariableFatal ==
    /\ \A i \in 1..Len(continuous_results) :
          continuous_results[i].var \notin Columns
          => /\ continuous_results[i].table = <<>>
             /\ continuous_results[i].test.name = "insufficient_data"
    /\ pc = "done" => AllVariablesDone
    /\ (pc # "request" /\ AllVariablesDone) => pc # "error"

(***************************************************************************)
(* Properties of the corrector (SpecFDR).                                  *)
(***************************************************************************)
\* a defined p-value / an undefined one (NaN, None, "N/A")
Defined(p) == IsNum(p)
Undefined(p) == p \in {NaN, None, NA}

\* the defined entries of ps, in order
DefinedOnly(ps) == SelectSeq(ps, Defined)

\* the position of entry i of ps among the defined entries
DefinedRank(ps, i) == Cardinality({j \in 1..i : Defined(ps[j])})

\* C9: on a list of defined p-values in [0,1] apply_fdr_correction returns
\* a list of the same length in the original order in which every adjusted
\* p-value is >= its raw p-value and lies in [0,1], and the adjusted
\* p-values are non-decreasing in the order of the raw p-values.
C9_BenjaminiHochberg ==
    (/\ corrected.op = "apply_fdr_correction"
     /\ \A i \in 1..Len(p_values) : Defined(p_values[i]))
    => LET adj == corrected.ret.value
       IN  /\ corrected.ret.exc = "none"
           /\ Len(adj) = Len(p_values)
           /\ \A i \in 1..Len(adj) :
                /\ Defined(adj[i])
                /\ DLeq(p_values[i], adj[i])
                /\ DLeq(DZero, adj[i])
                /\ DLeq(adj[i], DOne)
           /\ \A i, j \in 1..Len(adj) :
                DLeq(p_values[i], p_values[j]) => DLeq(adj[i], adj[j])

\* C10: a correction of a family with undefined p-values (NaN, None, "N/A")
\* completes without error, returns the undefined entries undefined at
\* their positions, and gives every defined entry the adjusted value it
\* gets when the undefined entries are absent.
C10_UndefinedIgnored ==
    /\ corrected.op = "apply_fdr_correction"
       => LET alone == apply_fdr_correction(DefinedOnly(p_values))
          IN  /\ corrected.ret.exc = "none"
              /\ Len(corrected.ret.value) = Len(p_values)
              /\ \A i \in 1..Len(p_values) :
                   IF Undefined(p_values[i])
                   THEN Undefined(corrected.ret.value[i])
                   ELSE corrected.ret.value[i]
                            = alone.value[DefinedRank(p_values, i)]
    /\ corrected.op = "apply_fdr_to_analysis_results"
       => LET ps == [i \in 1..Len(continuous_results) |->
                        continuous_results[i].test.p]
              alone == apply_fdr_correction(DefinedOnly(ps))
          IN  /\ corrected.ret.exc = "none"
              /\ \A i \in 1..Len(ps) :
                   LET p_fdr == corrected.ret.continuous_results[i].test.p_fdr
                   IN  IF Undefined(ps[i])
                       THEN Undefined(p_fdr)
                       ELSE p_fdr = alone.value[DefinedRank(ps, i)]

\* the adjusted p-values of a family of results
PFdrs(results) == [i \in 1..Len(results) |-> results[i].test.p_fdr]

\* C11: in apply_fdr_to_analysis_results the p_fdr of every continuous
\* result depends only on the continuous p-values and that of every
\* categorical result only on the categorical ones: each family gets the
\* p_fdr it gets when the other family is empty, whatever the other family
\* holds.
C11_PerFamily ==
    corrected.op = "apply_fdr_to_analysis_results"
    => LET cont_alone == apply_fdr_to_analysis_results(continuous_results, <<>>, "BH")
           cat_alone == apply_fdr_to_analysis_results(<<>>, categorical_results, "BH")
       IN  /\ cont_alone.exc = "none"
              => /\ corrected.ret.exc = "none"
                 /\ PFdrs(corrected.ret.continuous_results)
                        = PFdrs(cont_alone.continuous_results)
           /\ cat_alone.exc = "none"
              => /\ corrected.ret.exc = "none"
                 /\ PFdrs(corrected.ret.categorical_results)
                        = PFdrs(cat_alone.categorical_results)

\* the name as a function of the number of non-empty groups and of whether
\* a normality test of the variable rejected
NameOfGroups(n, rejected) ==
    IF n < 2 THEN "insufficient_data"
    ELSE IF n = 2 THEN (IF rejected THEN "mann_whitney" ELSE "welch_ttest")
    ELSE (IF rejected THEN "kruskal_wallis" ELSE "welch_anova")

\* the name as a function of the table's shape and of whether its minimum
\* expected count is below 5
NameOfTable(n_rows, n_cols, small) ==
    IF n_rows < 2 \/ n_cols < 2 THEN "insufficient_data"
    ELSE IF small /\ n_rows = 2 /\ n_cols = 2 THEN "fisher_exact"
    ELSE "chi_square"

PrepRows ==
    {Row(g, 0, "a") : g \in {"F", "M", "", GenderNaN}}
    \cup {Row("F", xv, lv) : xv \in {0, 2, XNaN}, lv \in {"a", LevNaN}}

\* the mappings: mixed-case targets, two entries for one raw value, an entry
\* for the empty string and for the text of a missing value, and no entry
PrepMaps ==
    { RunGenderMap,
      <<[from_value |-> "F", to_value |-> "female"],
        [from_value |-> "F", to_value |-> "other"]>>,
      <<[from_value |-> "", to_value |-> "other"],
        [from_value |-> "nan", to_value |-> "Male"]>>,
      <<>> }

\* impute_config.items(): nothing, one method for one column, two columns,
\* and the items of ImputeConfig.dict()
ImputeOptions ==
    { <<>>,
      <<[key |-> "x", method |-> "mean"]>>,
      <<[key |-> "x", method |-> "median"]>>,
      <<[key |-> "x", method |-> "mode"]>>,
      <<[key |-> "lev", method |-> "mode"]>>,
      <<[key |-> "lev", method |-> "mean"]>>,
      <<[key |-> "x", method |-> "mean"], [key |-> "lev", method |-> "mode"]>>,
      RunImpute }

\* the policy strings: the three of MissingPolicy and one that is none of them
PrepPolicies == {"listwise", "pairwise", "flag", "none"}

InitPrep ==
    /\ pc = "prep"
    /\ session \in SeqsUpTo(PrepRows, MaxPrepRows)
    /\ req \in [gender_map : PrepMaps, missing_policy : PrepPolicies,
                impute : ImputeOptions]
    /\ df = <<>>
    /\ normality_tests = <<>>
    /\ continuous_results = <<>>
    /\ categorical_results = <<>>
    /\ out = Idle
    /\ p_values = <<>>
    /\ q_values = <<>>
    /\ corrected = Idle
    /\ cache = DataCache(1, 0)
    /\ now = 0

PrepReturn(op, table) ==
    /\ pc = "prep"
    /\ pc' = "prepped"
    /\ df' = table
    /\ out' = [op |-> op]
    /\ UNCHANGED <<cache, now>>
    /\ UNCHANGED <<session, req, normality_tests, continuous_results,
                   categorical_results, p_values, q_values, corrected>>

\* apply_gender_mapping(df, 'gender', gender_map)
CallApplyGenderMapping ==
    PrepReturn("apply_gender_mapping", apply_gender_mapping(session, req.gender_map))

\* the gender mapping step of analyze_data (lines 57-65)
CallAnalyzeGenderMapping ==
    PrepReturn("analyze_data", ApplyGenderMap(session, req.gender_map))

\* handle_missing_data(df, missing_policy, impute_config)
CallHandleMissingData ==
    PrepReturn("handle_missing_data",
               handle_missing_data(session, req.missing_policy, req.impute))

NextPrep ==
    \/ CallApplyGenderMapping
    \/ CallAnalyzeGenderMapping
    \/ CallHandleMissingData

SpecPrep == InitPrep /\ [][NextPrep]_vars

(***************************************************************************)
(* Claims on the preparation steps                                         *)
(***************************************************************************)
\* the targets of the entries of the mapping for a raw text
TargetsFor(text, gender_map) ==
    {gender_map[i].to_value :
        i \in {j \in 1..Len(gender_map) : gender_map[j].from_value = text}}

\* the category the statement names for a raw value: a target of its entry,
\* "missing" without an entry; fold is the case folding applied to a target
NormalizedAs(category, text, gender_map, fold(_)) ==
    IF TargetsFor(text, gender_map) = {}
    THEN category = "missing"
    ELSE category \in {fold(t) : t \in TargetsFor(text, gender_map)}

Unfolded(t) == t

\* the call returned a table of the rows passed in, in their order, that
\* differs from it in the gender column only
SameRowsButGender ==
    /\ Len(df) = Len(session)
    /\ \A i \in 1..Len(df) : df[i].x = session[i].x /\ df[i].lev = session[i].lev

\* C13: gender normalization is total: every raw gender value, the empty and
\* the missing one included, becomes the target of its entry in the mapping,
\* or "missing" when it has no entry; the call returns for every table.  In
\* analyze_data the raw value is looked up as text and the target is
\* lower-cased, so the category is the lower-cased target.
C13_GenderNormalizationTotal ==
    /\ (pc = "prepped" /\ out.op = "apply_gender_mapping") =>
          /\ SameRowsButGender
          /\ \A i \in 1..Len(df) :
                NormalizedAs(df[i].gender, session[i].gender, req.gender_map,
                             Unfolded)
    /\ (pc = "prepped" /\ out.op = "analyze_data") =>
          /\ SameRowsButGender
          /\ \A i \in 1..Len(df) :
                NormalizedAs(df[i].gender, AsStr(session[i].gender),
                             req.gender_map, Lower)

\* C13 as stated: the category is the target itself in analyze_data too, and
\* never a value outside the targets and "missing"
C13_AsStated ==
    (pc = "prepped" /\ out.op \in {"apply_gender_mapping", "analyze_data"}) =>
        \A i \in 1..Len(df) :
            /\ NormalizedAs(df[i].gender, AsStr(session[i].gender),
                            req.gender_map, Unfolded)
            /\ df[i].gender \in
                 {req.gender_map[j].to_value : j \in 1..Len(req.gender_map)}
                 \cup {"missing"}

\* analyze_data normalized a table with a mapped raw value whose target has
\* an upper-case letter, and a missing raw value without an entry
C13_Witness ==
    /\ pc = "prepped"
    /\ out.op = "analyze_data"
    /\ req.gender_map = RunGenderMap
    /\ \E i, j \in 1..Len(df) :
          /\ session[i].gender = "F" /\ df[i].gender = "female"
          /\ session[j].gender = GenderNaN /\ df[j].gender = "missing"

\* the indices of the rows of the table passed in that have a value in every
\* column
CompleteRows ==
    {i \in 1..Len(session) :
        /\ session[i].gender # GenderNaN
        /\ session[i].x # XNaN
        /\ session[i].lev # LevNaN}

HandledWith(policies) ==
    /\ pc = "prepped"
    /\ out.op = "handle_missing_data"
    /\ req.missing_policy \in policies

MethodFor(var) ==
    IF \E i \in 1..Len(req.impute) : req.impute[i].key = var
    THEN req.impute[CHOOSE i \in 1..Len(req.impute) : req.impute[i].key = var].method
    ELSE "none"

\* C16: a configured impute method is applied after the policy step under
\* each of listwise, pairwise and flag: a numeric column with a mean, median
\* or mode configured and a text column with a mode configured have no
\* missing value left when they have a value at all.
C16_ImputeAfterPolicy ==
    HandledWith({"listwise", "pairwise", "flag"}) =>
        /\ (MethodFor("x") \in {"mean", "median", "mode"}
              /\ \E i \in 1..Len(df) : df[i].x # XNaN)
           => \A i \in 1..Len(df) : df[i].x # XNaN
        /\ (MethodFor("lev") = "mode" /\ \E i \in 1..Len(df) : df[i].lev # LevNaN)
           => \A i \in 1..Len(df) : df[i].lev # LevNaN

(***************************************************************************)
(* SpecEff: the two-group effect sizes called on two series of doubles,    *)
(* and the odds ratio called on the cells of a 2x2 table.  req holds the   *)
(* arguments, out the entries returned.                                    *)
(***************************************************************************)
\* the observations: 0.0, 0.1 and 0.3
EffValues == {DZero, D01, D03}

\* a group of the two-group branch has at least one observation
EffGroups == SeqsUpTo(EffValues, MaxGroup) \ {<<>>}

InitEff ==
    /\ pc = "eff"
    /\ req \in [kind : {"groups"}, group1 : EffGroups, group2 : EffGroups]
               \cup [kind : {"table"}, a : 0..MaxCell, b : 0..MaxCell,
                     c : 0..MaxCell, d : 0..MaxCell]
    /\ session = <<>>
    /\ df = <<>>
    /\ normality_tests = <<>>
    /\ continuous_results = <<>>
    /\ categorical_results = <<>>
    /\ out = Idle
    /\ p_values = <<>>
    /\ q_values = <<>>
    /\ corrected = Idle
    /\ cache = DataCache(1, 0)
    /\ now = 0

EffReturn(op, effects) ==
    /\ pc = "eff"
    /\ pc' = "effects"
    /\ out' = [op |-> op, exc |-> FALSE, effects |-> effects]
    /\ UNCHANGED <<cache, now>>
    /\ UNCHANGED <<session, df, req, normality_tests, continuous_results,
                   categorical_results, p_values, q_values, corrected>>

\* Cohen's d and Hedges' g of calculate_continuous_effect_sizes
CallTwoGroupEffects ==
    /\ req.kind = "groups"
    /\ EffReturn("two_group", TwoGroupEffects(req.group1, req.group2))

\* the odds ratio of calculate_categorical_effect_sizes
CallOddsRatio ==
    /\ req.kind = "table"
    /\ EffReturn("odds_ratio", OddsRatioEffects(req.a, req.b, req.c, req.d))

NextEff ==
    \/ CallTwoGroupEffects
    \/ CallOddsRatio

SpecEff == InitEff /\ [][NextEff]_vars

(***************************************************************************)
(* Claims on the effect sizes                                              *)
(***************************************************************************)
EffectNames == {out.effects[i].name : i \in 1..Len(out.effects)}

\* every observation of the group is the same number
AllEqual(group) == \A i \in 1..Len(group) : group[i] = group[1]

\* C17: Cohen's d and Hedges' g are both undefined, without an exception,
\* whenever a group has fewer than two observations or the pooled standard
\* deviation is zero (the observations of each group are all equal);
\* otherwise both are produced and Hedges' g is Cohen's d times
\* 1 - 3 / (4 (n1 + n2) - 9).
C17_CohenHedgesDefined ==
    (pc = "effects" /\ out.op = "two_group") =>
        LET n1 == Len(req.group1)
            n2 == Len(req.group2)
        IN  /\ ~out.exc
            /\ IF n1 < 2 \/ n2 < 2 \/ (AllEqual(req.group1) /\ AllEqual(req.group2))
               THEN out.effects = <<>>
               ELSE /\ Len(out.effects) = 2
                    /\ out.effects[1].name = "Cohen's d"
                    /\ out.effects[2].name = "Hedges' g"
                    /\ out.effects[2].value.d = out.effects[1].value
                    /\ LET f == out.effects[2].value.correction
                       IN  f[1] * (4 * (n1 + n2) - 9)
                             = f[2] * ((4 * (n1 + n2) - 9) - 3)


\* lower <= odds ratio <= upper for a reported entry: the bounds are numbers
\* and exp(log_or - 1.96 se) <= or_value <= exp(log_or + 1.96 se)
IntervalAround(entry) ==
    /\ entry.ci_lower # NaN /\ entry.ci_upper # NaN
    /\ entry.ci_lower # None /\ entry.ci_upper # None
    /\ entry.ci_lower = [k |-> "exp", of |-> "log_or - 1.96 * se"]
    /\ entry.ci_upper = [k |-> "exp", of |-> "log_or + 1.96 * se"]

\* C18: for every 2x2 table of non-negative counts the odds ratio is either
\* reported as (a * d) / (b * c) with a defined 95% interval such that
\* lower <= odds ratio <= upper, or undefined without an exception; it is
\* undefined exactly when b or c is zero.
C18_OddsRatio ==
    (pc = "effects" /\ out.op = "odds_ratio") =>
        /\ ~out.exc
        /\ (out.effects = <<>>) <=> (req.b = 0 \/ req.c = 0)
        /\ out.effects # <<>> =>
              /\ out.effects[1].value.num = req.a * req.d
              /\ out.effects[1].value.den = req.b * req.c
              /\ IntervalAround(out.effects[1])

(***************************************************************************)
(* services/gender_bias.py _assess_representation_gaps, on the by_gender   *)
(* summary of services/summarize.py summarize_by_gender and the tables of  *)
(* the categorical results.                                                *)
(***************************************************************************)
\* the thresholds of the two loops, in percent
ImbalancePct == 60
LevelPct == 70

\* round(n / total_n * 100, 2) in hundredths of a percent
PctHundredths(n, total_n) ==
    LET q == (n * 10000) \div total_n
        r2 == 2 * ((n * 10000) % total_n)
    IN  IF r2 > total_n \/ (r2 = total_n /\ q % 2 = 1) THEN q + 1 ELSE q

\* summarize_by_gender: one summary for every gender of categories_order, as
\* written in the request, that occurs in the column
RECURSIVE summarize_by_gender(_, _)
summarize_by_gender(d, categories_order) ==
    IF categories_order = <<>> THEN <<>>
    ELSE LET gender == Head(categories_order)
             rest == summarize_by_gender(d, Tail(categories_order))
         IN  IF GenderPresent(d, gender)
             THEN <<[gender |-> gender, n |-> Len(GenderData(d, gender)),
                     pct |-> PctHundredths(Len(GenderData(d, gender)), Len(d))]>>
                  \o rest
             ELSE rest

\* the first loop (lines 193-208): an entry for every summary with pct > 60
ImbalanceGaps(gender_summary) ==
    LET over == SelectSeq(gender_summary, LAMBDA g : g.pct > ImbalancePct * 100)
    IN  [i \in 1..Len(over) |->
            [type |-> "representation_imbalance", gender |-> over[i].gender]]

\* level_gender_counts of one table (lines 216-227): the rows whose n is not
\* a suppression marker
CountedRows(table) == SelectSeq(table, LAMBDA row : ~IsMarker(row.n))

\* the second loop for one categorical result (lines 229-245): an entry for
\* every counted row whose count is more than 70% of its level's total
LevelGaps(var_result) ==
    LET rows == CountedRows(var_result.table)
        total_level(level) ==
            SumOver([i \in 1..Len(rows) |-> rows[i].n.v],
                    {i \in 1..Len(rows) : rows[i].level = level})
        over == SelectSeq(rows,
                    LAMBDA row : total_level(row.level) # 0
                                 /\ row.n.v * 100 > LevelPct * total_level(row.level))
    IN  [i \in 1..Len(over) |->
            [type |-> "level_representation", variable |-> var_result.var,
             level |-> over[i].level, gender |-> over[i].gender]]

RECURSIVE AllLevelGaps(_)
AllLevelGaps(categorical) ==
    IF categorical = <<>> THEN <<>>
    ELSE LevelGaps(Head(categorical)) \o AllLevelGaps(Tail(categorical))

_assess_representation_gaps(analysis_results) ==
    LET gender_summary == analysis_results.by_gender
        total_n == SumOver([i \in 1..Len(gender_summary) |-> gender_summary[i].n],
                           1..Len(gender_summary))
    IN  IF total_n = 0 THEN <<>>
        ELSE ImbalanceGaps(gender_summary)
             \o AllLevelGaps(analysis_results.categorical)

(***************************************************************************)
(* SpecBias: the representation gaps of one analysis: by_gender and the    *)
(* categorical tables are built from the working table as analyze_data     *)
(* builds them, and handed to _assess_representation_gaps.                 *)
(***************************************************************************)
\* the working tables: normalized genders female, male and missing, with the
\* levels a and b
BiasDatasets ==
    {Rows("female", 0, "a", fa) \o Rows("female", 0, "b", fb)
     \o Rows("male", 0, "a", ma) \o Rows("male", 0, "b", mb)
     \o Rows("missing", 0, "a", u) :
        fa \in 0..MaxThreshold, fb \in 0..MaxThreshold,
        ma \in 0..MaxThreshold, mb \in 0..MaxThreshold, u \in 0..1}

BiasRequests ==
    [categories_order : {<<"female", "male">>, <<"Female", "male">>,
                         <<"male", "female", "missing">>},
     vars_categorical : {<<>>, <<"lev">>},
     weight_col : {"None"},
     suppress_threshold : 1..MaxThreshold]

InitBias ==
    /\ pc = "bias"
    /\ df \in BiasDatasets
    /\ req \in BiasRequests
    /\ session = <<>>
    /\ normality_tests = <<>>
    /\ continuous_results = <<>>
    /\ categorical_results = <<>>
    /\ out = Idle
    /\ p_values = <<>>
    /\ q_values = <<>>
    /\ corrected = Idle
    /\ cache = DataCache(1, 0)
    /\ now = 0

\* analysis_results_dict of analyze_data (lines 72, 130-134, 169-174, 191-195)
AnalysisResults(d, r) ==
    [by_gender |-> summarize_by_gender(d, r.categories_order),
     categorical |->
        [i \in 1..Len(r.vars_categorical) |->
            [var |-> r.vars_categorical[i],
             table |-> summarize_categorical_variable(d, r.vars_categorical[i],
                           r.categories_order, r.weight_col,
                           r.suppress_threshold)]]]

CallAssessRepresentationGaps ==
    /\ pc = "bias"
    /\ pc' = "assessed"
    /\ out' = [op |-> "_assess_representation_gaps",
               analysis_results |-> AnalysisResults(df, req),
               representation_gaps |->
                   _assess_representation_gaps(AnalysisResults(df, req))]
    /\ UNCHANGED <<cache, now>>
    /\ UNCHANGED <<session, df, req, normality_tests, continuous_results,
                   categorical_results, p_values, q_values, corrected>>

NextBias == CallAssessRepresentationGaps

SpecBias == InitBias /\ [][NextBias]_vars

(***************************************************************************)
(* Claims on the bias assessor                                             *)
(***************************************************************************)
\* some gender category holds more than 60% of the rows of the sample
SomeShareOver60 ==
    \E g \in {df[i].gender : i \in 1..Len(df)} :
        Len(GenderData(df, g)) * 100 > 60 * Len(df)

\* C19: representation_gaps is non-empty if and only if some gender
\* category's share of the overall sample exceeds 60%.
C19_RepresentationGaps ==
    pc = "assessed" => (out.representation_gaps # <<>> <=> SomeShareOver60)

(***************************************************************************)
(* services/cache.py DataCache, and the session lookup of analyze_data.    *)
(* The registry cache.sessions is a function from session ids to sessions; *)
(* times are whole units of five minutes (the cleanup interval), and       *)
(* ttl_minutes is five times ttl_units.                                    *)
(***************************************************************************)
\* fault variant of _is_expired: a session is expired as soon as the time
\* since its last access reaches the TTL
IsExpiredAtTtl(c, s, t) == t - s.last_accessed >= c.ttl_minutes

\* _is_expired: (now - last_accessed).total_seconds() > ttl_minutes * 60
_is_expired(c, s, t) == t - s.last_accessed > c.ttl_minutes

\* the registry without one id / with one id set
Without(sessions, id) == [i \in DOMAIN sessions \ {id} |-> sessions[i]]
With(sessions, id, s) ==
    [i \in DOMAIN sessions \cup {id} |-> IF i = id THEN s ELSE sessions[i]]

\* hashlib.md5(data.to_string().encode()).hexdigest()[:16] on the tables of
\* the model
DataHash(data) ==
    IF data = <<>> THEN "d41d"
    ELSE IF data[1].gender = "F" THEN "h1" ELSE "h2"

\* create_session: the id is made of the hash of the data and the last
\* eight digits of the time in whole seconds
SessionId(data_hash, timestamp) == <<data_hash, timestamp>>

\* the session has no key analysis_results until update_session stores one:
\* None stands for the absent key
create_session(c, data, metadata, timestamp, t) ==
    [c EXCEPT !.sessions =
        With(c.sessions, SessionId(DataHash(data), timestamp),
             [data |-> data, metadata |-> metadata, created_at |-> t,
              last_accessed |-> t, file_hash |-> DataHash(data),
              analysis_results |-> None])]

\* fault variant of get_session: an access also removes every other session
\* that has expired
get_session_purging(c, id, t) ==
    LET live == [i \in {j \in DOMAIN c.sessions :
                          ~_is_expired(c, c.sessions[j], t)} |-> c.sessions[i]]
    IN  IF id \notin DOMAIN c.sessions THEN [cache |-> c, ret |-> None]
        ELSE IF _is_expired(c, c.sessions[id], t)
        THEN [cache |-> [c EXCEPT !.sessions = live], ret |-> None]
        ELSE LET s == [c.sessions[id] EXCEPT !.last_accessed = t]
             IN  [cache |-> [c EXCEPT !.sessions = With(live, id, s)], ret |-> s]

\* get_session: [cache, ret]; None for an unknown id; an expired session is
\* deleted and None returned; otherwise last_accessed is set and the session
\* returned
get_session(c, id, t) ==
    IF id \notin DOMAIN c.sessions THEN [cache |-> c, ret |-> None]
    ELSE IF _is_expired(c, c.sessions[id], t)
    THEN [cache |-> [c EXCEPT !.sessions = Without(c.sessions, id)], ret |-> None]
    ELSE LET s == [c.sessions[id] EXCEPT !.last_accessed = t]
         IN  [cache |-> [c EXCEPT !.sessions = With(c.sessions, id, s)], ret |-> s]

\* session.update(updates): the keys of updates are set, the others kept
DictUpdate(s, updates) ==
    [k \in DOMAIN s |-> IF k \in DOMAIN updates THEN updates[k] ELSE s[k]]

\* update_session: [cache, ret]; the session is updated and its
\* last_accessed set, whether or not it has expired
update_session(c, id, updates, t) ==
    IF id \notin DOMAIN c.sessions THEN [cache |-> c, ret |-> FALSE]
    ELSE [cache |->
            [c EXCEPT !.sessions[id] =
                [DictUpdate(c.sessions[id], updates) EXCEPT !.last_accessed = t]],
          ret |-> TRUE]

\* delete_session: [cache, ret]
delete_session(c, id) ==
    IF id \in DOMAIN c.sessions
    THEN [cache |-> [c EXCEPT !.sessions = Without(c.sessions, id)], ret |-> TRUE]
    ELSE [cache |-> c, ret |-> FALSE]

\* cleanup: nothing within one interval of the last cleanup, else every
\* expired session is removed
cleanup(c, t) ==
    IF t - c.last_cleanup < 1 THEN c
    ELSE [c EXCEPT !.sessions =
                      [i \in {j \in DOMAIN c.sessions :
                                ~_is_expired(c, c.sessions[j], t)} |-> c.sessions[i]],
                   !.last_cleanup = t]

(***************************************************************************)
(* SpecCache: the operations of the DataCache and the lookup of            *)
(* analyze_data, interleaved with the clock.                               *)
(***************************************************************************)
\* the uploaded table
Uploads == {Rows("F", 0, "a", 1)}

\* the name of the uploaded file (metadata) and the results an analysis
\* stores
Filenames == {"a.csv"}
StoredResults == {[analysis_results |-> [k |-> "response"]]}

\* int(time.time()) at the time t of the clock: one of two seconds of the
\* unit of five minutes
SecondsAt(t) == {<<t, "first">>, <<t, "later">>}

\* the registry holds at most as many sessions as one unit of time has
\* seconds
MaxSessions == Cardinality(SecondsAt(0))

\* the ids a caller asks for: the ids of the registry and one that no
\* session ever had
UnknownId == SessionId("none", 0)
SessionIds == DOMAIN cache.sessions \cup {UnknownId}

InitCache ==
    /\ pc = "cache"
    /\ cache \in {DataCache(ttl, 0) : ttl \in 1..MaxTtl}
    /\ now = 0
    /\ session = <<>>
    /\ df = <<>>
    /\ req = Idle
    /\ normality_tests = <<>>
    /\ continuous_results = <<>>
    /\ categorical_results = <<>>
    /\ out = Idle
    /\ p_values = <<>>
    /\ q_values = <<>>
    /\ corrected = Idle

CacheFrame ==
    UNCHANGED <<req, normality_tests, continuous_results, categorical_results,
                p_values, q_values, corrected, now>>

\* the clock advances
Tick ==
    /\ now < MaxTime
    /\ now' = now + 1
    /\ UNCHANGED <<pc, session, df, req, normality_tests, continuous_results,
                   categorical_results, out, p_values, q_values, corrected,
                   cache>>

CallCreateSession ==
    \E d \in Uploads, name \in Filenames, timestamp \in SecondsAt(now) :
        /\ Cardinality(DOMAIN cache.sessions) < MaxSessions
        /\ cache' = create_session(cache, d, [filename |-> name], timestamp, now)
        /\ out' = [op |-> "create_session",
                   id |-> SessionId(DataHash(d), timestamp),
                   ret |-> SessionId(DataHash(d), timestamp)]
        /\ UNCHANGED <<pc, session, df>>
        /\ CacheFrame

CallGetSession ==
    \E id \in SessionIds :
        /\ cache' = get_session(cache, id, now).cache
        /\ out' = [op |-> "get_session", id |-> id,
                   ret |-> get_session(cache, id, now).ret]
        /\ UNCHANGED <<pc, session, df>>
        /\ CacheFrame

CallUpdateSession ==
    \E id \in SessionIds, updates \in StoredResults :
        /\ cache' = update_session(cache, id, updates, now).cache
        /\ out' = [op |-> "update_session", id |-> id,
                   ret |-> update_session(cache, id, updates, now).ret]
        /\ UNCHANGED <<pc, session, df>>
        /\ CacheFrame

CallDeleteSession ==
    \E id \in SessionIds :
        /\ cache' = delete_session(cache, id).cache
        /\ out' = [op |-> "delete_session", id |-> id,
                   ret |-> delete_session(cache, id).ret]
        /\ UNCHANGED <<pc, session, df>>
        /\ CacheFrame

CallCleanup ==
    /\ cache' = cleanup(cache, now)
    /\ out' = [op |-> "cleanup", id |-> None, ret |-> None]
    /\ UNCHANGED <<pc, session, df>>
    /\ CacheFrame

\* analyze_data lines 39-47: the lookup; HTTPException 404 when it gives
\* None and the request ends; else the analysis starts on the session's data
CallAnalyzeLookup ==
    \E id \in SessionIds :
        LET got == get_session(cache, id, now)
        IN  /\ cache' = got.cache
            /\ IF got.ret = None
               THEN /\ out' = [op |-> "analyze_data", id |-> id,
                               ret |-> [status_code |-> 404,
                                        detail |-> "Session not found or expired"]]
                    /\ pc' = "rejected"
                    /\ UNCHANGED <<session, df>>
               ELSE /\ out' = [op |-> "analyze_data", id |-> id, ret |-> None]
                    /\ pc' = "request"
                    /\ session' = got.ret.data
                    /\ df' = <<>>
            /\ CacheFrame

NextCache ==
    \/ Tick
    \/ CallCreateSession
    \/ CallGetSession
    \/ CallUpdateSession
    \/ CallDeleteSession
    \/ CallCleanup
    \/ CallAnalyzeLookup

SpecCache == InitCache /\ [][NextCache]_vars

(***************************************************************************)
(* Claims on the session registry                                          *)
(***************************************************************************)
\* the id of the call made in this step was in the registry, last accessed
\* at most the TTL before
WasLive ==
    /\ out'.id \in DOMAIN cache.sessions
    /\ now - cache.sessions[out'.id].last_accessed <= cache.ttl_minutes

\* this step is a call of op: every call sets out, the clock stands still
StepOf(op) == out'.op = op /\ now' = now /\ pc \in {"cache", "rejected", "request"}

\* the sessions other than the one asked for are as they were
OthersKept ==
    \A i \in DOMAIN cache.sessions \ {out'.id} :
        i \in DOMAIN cache'.sessions /\ cache'.sessions[i] = cache.sessions[i]

\* C20: get_session(id) returns the session if and only if id is in the
\* registry and the time since its last access is at most the TTL; for an
\* expired session it returns None and removes the entry, for an unknown id
\* it returns None and leaves the registry unchanged; analyze_data answers a
\* missing or expired session with 'Session not found or expired' and runs
\* no analysis.
C20_LazyExpiry ==
    [][/\ StepOf("get_session") =>
             /\ out'.ret # None <=> WasLive
             /\ WasLive => out'.ret.data = cache.sessions[out'.id].data
             /\ (out'.id \in DOMAIN cache.sessions /\ ~WasLive) =>
                   out'.id \notin DOMAIN cache'.sessions /\ OthersKept
             /\ out'.id \notin DOMAIN cache.sessions => cache' = cache
       /\ StepOf("analyze_data") =>
             IF WasLive
             THEN pc' = "request" /\ session' = cache.sessions[out'.id].data
             ELSE /\ out'.ret = [status_code |-> 404,
                                 detail |-> "Session not found or expired"]
                  /\ pc' = "rejected"
                  /\ UNCHANGED <<session, df, normality_tests,
                                 continuous_results, categorical_results>>]_vars

\* get_session returned None for a session that had been returned when last
\* accessed exactly the TTL after its creation, and removed it
C20_Witness ==
    /\ out.op = "get_session"
    /\ out.ret = None
    /\ out.id \notin DOMAIN cache.sessions
    /\ \E d \in Uploads, timestamp \in SecondsAt(0) :
          out.id = SessionId(DataHash(d), timestamp)
    /\ now > cache.ttl_minutes + cache.ttl_minutes
    /\ Cardinality(DOMAIN cache.sessions) = 1

\* this step is a call addressed to one session id
AddressedStep ==
    /\ now' = now
    /\ out'.op \in {"create_session", "get_session", "update_session",
                    "delete_session", "analyze_data"}

\* C22: requests against different sessions do not interfere: a
\* create_session, get_session, update_session, delete_session or analysis
\* lookup addressed to one session id leaves the entry of every other session
\* (data, metadata, stored results, last access) as it was, so no other live
\* session becomes unretrievable.
C22_NoInterference == [][AddressedStep => OthersKept]_vars

\* a session was deleted while another one, with stored analysis results,
\* stayed in the registry
C22_Witness ==
    /\ out.op = "delete_session"
    /\ out.ret = TRUE
    /\ \E i \in DOMAIN cache.sessions :
          i # out.id /\ cache.sessions[i].analysis_results # None

\* the session of id is in the registry c and expired at time t
ExpiredIn(c, id, t) ==
    id \in DOMAIN c.sessions /\ t - c.sessions[id].last_accessed > c.ttl_minutes

\* C29: expiry is final: once the time since the last access of a session
\* has exceeded the TTL, no update_session, cleanup or get_session makes it
\* retrievable again; only creating a new session does.
C29_ExpiryFinal ==
    [][\A id \in DOMAIN cache.sessions :
          (ExpiredIn(cache, id, now) /\ id \in DOMAIN cache'.sessions
             /\ ~ExpiredIn(cache', id, now'))
          => (out'.op = "create_session" /\ out'.id = id)]_vars

\* C30: create_session returns an id that is not a key of the registry, so
\* it never replaces an existing session.
C30_FreshId ==
    [][(out'.op = "create_session" /\ now' = now /\ cache' # cache)
          => out'.id \notin DOMAIN cache.sessions]_vars

(***************************************************************************)
(* SpecService: the running application of main.py: uploads, deletions and *)
(* analysis runs on the sessions of its DataCache, interleaved with the    *)
(* clock, until the shutdown, which is the one place where cleanup is      *)
(* called.  An analysis run is two steps, from the lookup to the await of  *)
(* the export files and from there to the response.                        *)
(***************************************************************************)
\* fault variant of StoredAfterSteps: the steps work on the stored table
StoredInPlace(c, id, working) == [c EXCEPT !.sessions[id].data = working]

\* the registry after the steps of analyze_data on the working table:
\* df = session["data"].copy() (line 47), so the stored table is not written
StoredAfterSteps(c, id, working) == c

\* the requests of the analysis runs
ServiceRequests ==
    {[gender_map |-> RunGenderMap, missing_policy |-> policy,
      impute |-> RunImpute, categories_order |-> <<"female", "male">>] :
        policy \in {"listwise", "pairwise"}}

\* the part of response_data the model keeps: the settings and by_gender
ResponseData(working, r) ==
    [k |-> "response", settings |-> r,
     by_gender |-> summarize_by_gender(working, r.categories_order)]

\* lines 47-69 on the table of a session
WorkingTable(data, r) ==
    handle_missing_data(ApplyGenderMap(data, r.gender_map), r.missing_policy,
                        r.impute)

InitService ==
    /\ pc = "serving"
    /\ cache \in {DataCache(ttl, 0) : ttl \in 1..MaxTtl}
    /\ now = 0
    /\ session = <<>>
    /\ df = <<>>
    /\ req = Idle
    /\ normality_tests = <<>>
    /\ continuous_results = <<>>
    /\ categorical_results = <<>>
    /\ out = Idle
    /\ p_values = <<>>
    /\ q_values = <<>>
    /\ corrected = Idle

Running == pc # "stopped"

\* POST /upload: create_session
Upload == Running /\ CallCreateSession

\* DELETE /session: delete_session
DeleteSession == Running /\ CallDeleteSession

\* analyze_data up to the await: the lookup and the steps on the working copy
AnalyzeBegin ==
    /\ pc = "serving"
    /\ \E id \in SessionIds, r \in ServiceRequests :
          LET got == get_session(cache, id, now)
          IN  IF got.ret = None
              THEN /\ cache' = got.cache
                   /\ out' = [op |-> "analyze_data", id |-> id,
                              ret |-> [status_code |-> 404,
                                       detail |-> "Session not found or expired"]]
                   /\ UNCHANGED <<pc, req, df>>
              ELSE /\ df' = WorkingTable(got.ret.data, r)
                   /\ cache' = StoredAfterSteps(got.cache, id,
                                                WorkingTable(got.ret.data, r))
                   /\ req' = [session_id |-> id, request |-> r]
                   /\ pc' = "analysing"
                   /\ UNCHANGED out
    /\ UNCHANGED <<session, normality_tests, continuous_results,
                   categorical_results, p_values, q_values, corrected, now>>

\* analyze_data after the await: the response is stored with update_session
AnalyzeEnd ==
    /\ pc = "analysing"
    /\ cache' = update_session(cache, req.session_id,
                    [analysis_results |-> ResponseData(df, req.request)], now).cache
    /\ out' = [op |-> "analyze_data", id |-> req.session_id,
               ret |-> ResponseData(df, req.request)]
    /\ pc' = "serving"
    /\ req' = Idle
    /\ df' = <<>>
    /\ UNCHANGED <<session, normality_tests, continuous_results,
                   categorical_results, p_values, q_values, corrected, now>>

\* the shutdown part of lifespan: data_cache.cleanup()
Shutdown ==
    /\ pc = "serving"
    /\ cache' = cleanup(cache, now)
    /\ pc' = "stopped"
    /\ out' = [op |-> "shutdown", id |-> None, ret |-> None]
    /\ UNCHANGED <<session, df, req, normality_tests, continuous_results,
                   categorical_results, p_values, q_values, corrected, now>>

NextService ==
    \/ Tick
    \/ Upload
    \/ DeleteSession
    \/ AnalyzeBegin
    \/ AnalyzeEnd
    \/ Shutdown

\* the clock advances; the service is under no obligation to take requests
\* or to shut down
SpecService == InitService /\ [][NextService]_vars /\ WF_vars(Tick)

(***************************************************************************)
(* Claims on the running service                                           *)
(***************************************************************************)
\* every id a session can get
AllSessionIds ==
    {SessionId(DataHash(d), timestamp) :
        d \in Uploads, timestamp \in UNION {SecondsAt(t) : t \in 0..MaxTime}}

\* C21: every session that has expired is eventually removed from the
\* registry, even if it is never accessed again, while the service runs.
C21_EventuallyReclaimed ==
    \A id \in AllSessionIds :
        [](ExpiredIn(cache, id, now) => <>(id \notin DOMAIN cache.sessions))

\* C23: the table stored in a session is immutable after upload: whatever
\* analysis runs were made, the stored table is the uploaded one, and the
\* results stored by a run are those of its request on the uploaded table.
C23_StoredDataImmutable ==
    \A id \in DOMAIN cache.sessions :
        /\ cache.sessions[id].data \in Uploads
        /\ DataHash(cache.sessions[id].data) = id[1]
        /\ cache.sessions[id].analysis_results # None =>
              cache.sessions[id].analysis_results
                = ResponseData(WorkingTable(cache.sessions[id].data,
                                   cache.sessions[id].analysis_results.settings),
                               cache.sessions[id].analysis_results.settings)

\* a second analysis run on a session stored its results: the session holds
\* the results of a listwise request while the response of a pairwise
\* request is returned
C23_Witness ==
    /\ out.op = "analyze_data"
    /\ "k" \in DOMAIN out.ret
    /\ out.ret.k = "response"
    /\ out.ret.settings.missing_policy = "pairwise"
    /\ out.ret.by_gender # <<>>
    /\ out.id \in DOMAIN cache.sessions
    /\ cache.sessions[out.id].analysis_results = out.ret
    /\ cache.sessions[out.id].last_accessed > cache.sessions[out.id].created_at

(***************************************************************************)
(* Claims on the results of variables without enough data                  *)
(***************************************************************************)
\* a numeric p-value below 0.05
NumericBelow005(p) == IsNum(p) /\ DLess(p, D005)

\* the result of a variable whose test is insufficient_data is not
\* significant and gives no p-value to its family
NotSignificant(results) ==
    \A i \in 1..Len(results) :
        results[i].test.name = "insufficient_data" =>
            /\ ~NumericBelow005(results[i].test.p)
            /\ \A j \in 1..Len(FamilyIndices(results)) :
                  FamilyIndices(results)[j] # i

\* C28: a variable whose test is insufficient_data is never treated as
\* significant: its TestResult carries no numeric p-value below 0.05 and it
\* contributes no p-value to the family the FDR correction works on.
C28_InsufficientNeverSignificant ==
    NotSignificant(continuous_results) /\ NotSignificant(categorical_results)

\* the rows of the gender group g at the level of the variable lev
LevelRows(d, g, level) ==
    SelectSeq(d, LAMBDA row : row.gender = g /\ row.lev = level)

\* the gender group g holds more than 70% of the observations that the
\* gender groups of the request have at the level
TrueShareOver70(d, categories_order, g, level) ==
    LET groups == Range(LowerAll(categories_order))
        at_level == SelectSeq(d, LAMBDA row : row.gender \in groups
                                              /\ row.lev = level)
    IN  /\ g \in groups
        /\ Len(LevelRows(d, g, level)) * 100 > LevelPct * Len(at_level)

\* C25: a level_representation gap is reported for a categorical variable, a
\* level and a gender if and only if that gender's share of the observations
\* at the level, over all gender groups present at the level, exceeds 70%,
\* also when cells of the level are suppressed in the table.
C25_LevelRepresentation ==
    (pc = "assessed" /\ req.vars_categorical = <<"lev">>) =>
        \A level \in {"a", "b"}, g \in {"female", "male", "missing"} :
            (\E i \in 1..Len(out.representation_gaps) :
                /\ out.representation_gaps[i].type = "level_representation"
                /\ out.representation_gaps[i].variable = "lev"
                /\ out.representation_gaps[i].level = level
                /\ out.representation_gaps[i].gender = g)
            <=> TrueShareOver70(df, req.categories_order, g, level)

(***************************************************************************)
(* services/gender_bias.py: the disparities, the missing-data findings,    *)
(* the practical-significance findings and the recommendations.  Dec(n) is *)
(* the float n / 100 (an effect size, a mean, a percentage); the values    *)
(* used are those on which the float arithmetic of the code is exact.      *)
(***************************************************************************)
Dec(n) == [k |-> "dec", v |-> n]
IsDec(v) == v.k = "dec"
Abs(n) == IF n < 0 THEN 0 - n ELSE n

\* the value of the first effect with one of the names (the loops with break
\* of lines 91-95 and 137-141), None without one
RECURSIVE FirstEffect(_, _)
FirstEffect(effects, names) ==
    IF effects = <<>> THEN None
    ELSE IF Head(effects).name \in names THEN Head(effects).value
    ELSE FirstEffect(Tail(effects), names)

\* is_significant of lines 86 and 132, after the results with a text p-value
\* were skipped
IsSignificant(p_value) == p_value # None /\ IsNum(p_value) /\ DLess(p_value, D005)

\* lines 97-109: no comparison with NaN is true
ContinuousSeverity(effect_size) ==
    IF effect_size = None THEN "moderate"
    ELSE IF effect_size = NaN THEN "small"
    ELSE IF ~IsDec(effect_size) THEN "moderate"
    ELSE IF Abs(effect_size.v) >= 80 THEN "large"
    ELSE IF Abs(effect_size.v) >= 50 THEN "moderate"
    ELSE "small"

\* "Cramér" in str(eff_val) (line 149): eff_val is a float
CramerInText(eff_val) == FALSE

\* lines 143-158: the bands are read only when effect_size is a text and the
\* text of its float holds the word
CategoricalSeverity(effect_size) ==
    IF effect_size = None \/ effect_size = NaN \/ ~IsDec(effect_size)
    THEN "moderate"
    ELSE IF effect_size.k = "str" /\ CramerInText(effect_size)
    THEN (IF effect_size.v >= 50 THEN "large"
          ELSE IF effect_size.v >= 30 THEN "moderate"
          ELSE "small")
    ELSE "moderate"

\* one loop of _assess_statistical_disparities over a list of results
RECURSIVE Disparities(_, _)
Disparities(results, type) ==
    IF results = <<>> THEN <<>>
    ELSE LET var_result == Head(results)
             p_value == var_result.test.p
             effect_size ==
                 FirstEffect(var_result.effects,
                             IF type = "continuous"
                             THEN {"Cohen's d", "Hedges' g"}
                             ELSE {"Cramer's V", "Odds Ratio"})
             rest == Disparities(Tail(results), type)
         IN  IF p_value = NA THEN rest
             ELSE IF IsSignificant(p_value)
             THEN <<[variable |-> var_result.var, type |-> type,
                     p_value |-> p_value, effect_size |-> effect_size,
                     severity |-> IF type = "continuous"
                                  THEN ContinuousSeverity(effect_size)
                                  ELSE CategoricalSeverity(effect_size)]>>
                  \o rest
             ELSE rest

_assess_statistical_disparities(analysis_results) ==
    Disparities(analysis_results.continuous, "continuous")
    \o Disparities(analysis_results.categorical, "categorical")

\* max and min of a non-empty sequence of numbers
RECURSIVE MaxOf(_)
MaxOf(s) ==
    IF Len(s) = 1 THEN s[1]
    ELSE LET m == MaxOf(Tail(s)) IN IF s[1] > m THEN s[1] ELSE m

RECURSIVE MinOf(_)
MinOf(s) ==
    IF Len(s) = 1 THEN s[1]
    ELSE LET m == MinOf(Tail(s)) IN IF s[1] < m THEN s[1] ELSE m

\* the values of a key that are numbers, in the order of the rows
NumbersOf(rows, key) ==
    LET kept == SelectSeq(rows, LAMBDA row : IsDec(row[key]))
    IN  [i \in 1..Len(kept) |-> kept[i][key].v]

\* _assess_missing_data_bias for the variables of vars: a finding where the
\* largest and the smallest missing percentage differ by more than 10 points
RECURSIVE MissingDataBias(_, _)
MissingDataBias(missingness, variables) ==
    IF variables = <<>> THEN <<>>
    ELSE LET var == Head(variables)
             missing_values ==
                 NumbersOf(SelectSeq(missingness, LAMBDA m : m.var = var),
                           "missing_pct")
             rest == MissingDataBias(missingness, Tail(variables))
         IN  IF Len(missing_values) < 2 THEN rest
             ELSE IF MaxOf(missing_values) - MinOf(missing_values) > 10 * 100
             THEN <<[variable |-> var,
                     difference |-> Dec(MaxOf(missing_values)
                                        - MinOf(missing_values))]>> \o rest
             ELSE rest

\* the variables of the missingness list in the order of their first entry
RECURSIVE VarsOf(_)
VarsOf(missingness) ==
    IF missingness = <<>> THEN <<>>
    ELSE <<Head(missingness).var>>
         \o VarsOf(SelectSeq(Tail(missingness),
                             LAMBDA m : m.var # Head(missingness).var))

_assess_missing_data_bias(analysis_results) ==
    MissingDataBias(
        SelectSeq(analysis_results.missingness, LAMBDA m : m.missing_pct # NA),
        VarsOf(SelectSeq(analysis_results.missingness,
                         LAMBDA m : m.missing_pct # NA)))

\* lines 325-327: min_mean != 0 and
\* ((max_mean - min_mean) / abs(min_mean)) * 100 > 20
RelativeDiffOver20(max_mean, min_mean) ==
    min_mean # 0 /\ (max_mean - min_mean) * 100 > 20 * Abs(min_mean)

RECURSIVE PracticalFindings(_)
PracticalFindings(results) ==
    IF results = <<>> THEN <<>>
    ELSE LET var_result == Head(results)
             mean_values == NumbersOf(var_result.table, "mean")
             rest == PracticalFindings(Tail(results))
         IN  IF Len(mean_values) < 2 THEN rest
             ELSE IF RelativeDiffOver20(MaxOf(mean_values), MinOf(mean_values))
             THEN <<[variable |-> var_result.var, type |-> "continuous",
                     max_mean |-> Dec(MaxOf(mean_values)),
                     min_mean |-> Dec(MinOf(mean_values))]>> \o rest
             ELSE rest

_assess_practical_significance(analysis_results) ==
    PracticalFindings(analysis_results.continuous)

\* the template texts of _generate_recommendations, by their first words
RecIntersectional == "Consider conducting intersectional analysis"
RecCommunities == "Engage with affected communities"
RecSampling == "Review sampling and recruitment strategies"
RecMissingData == "Investigate reasons for differential missing data patterns"
RecGeneral ==
    <<"Use gender-transformative approaches",
      "Consider power dynamics, social norms, and structural barriers",
      "Ensure data collection and analysis processes are inclusive">>

\* fault variant of _generate_recommendations: any disparity triggers the
\* two recommendations of the large disparities
RecommendOnAnyDisparity(bias_assessment) ==
    (IF bias_assessment.statistical_disparities # <<>>
     THEN <<RecIntersectional, RecCommunities>> ELSE <<>>)
    \o (IF bias_assessment.representation_gaps # <<>>
        THEN <<RecSampling>> ELSE <<>>)
    \o (IF bias_assessment.missing_data_bias # <<>>
        THEN <<RecMissingData>> ELSE <<>>)
    \o RecGeneral

_generate_recommendations(bias_assessment) ==
    (IF \E i \in 1..Len(bias_assessment.statistical_disparities) :
            bias_assessment.statistical_disparities[i].severity = "large"
     THEN <<RecIntersectional, RecCommunities>> ELSE <<>>)
    \o (IF bias_assessment.representation_gaps # <<>>
        THEN <<RecSampling>> ELSE <<>>)
    \o (IF bias_assessment.missing_data_bias # <<>>
        THEN <<RecMissingData>> ELSE <<>>)
    \o RecGeneral

(***************************************************************************)
(* SpecAssess: assess_gender_bias, step by step, on the results of one     *)
(* continuous variable x and one categorical variable lev.                 *)
(***************************************************************************)
\* the p-values of a TestResult: 0.0 (no p-value in the selector's dict),
\* 0.002, 0.05, and the text that stands for an undefined one
AssessPs == {DZero, P002, D005, NA}

\* effect sizes of a continuous result: none, or Cohen's d (-0.9, 0.3, 0.6,
\* undefined) followed by Hedges' g
ContinuousEffects ==
    {<<>>} \cup {<<[name |-> "Cohen's d", value |-> v], Effect("Hedges' g")>> :
                    v \in {Dec(0 - 90), Dec(30), Dec(60), NaN}}

\* effect sizes of a categorical result: none, or Cramer's V (0.1, 0.4, 0.6)
CategoricalEffects ==
    {<<>>} \cup {<<[name |-> "Cramer's V", value |-> Dec(v)]>> : v \in {10, 40, 60}}

\* the means of a table: -1, 0, 1, 8, 9, or suppressed
AssessMeans == {Dec(0 - 100), Dec(0), Dec(100), Dec(800), Dec(900), ThresholdMarker}

MeansTables ==
    {<<[gender |-> "female", mean |-> f], [gender |-> "male", mean |-> m]>> :
        f \in AssessMeans, m \in AssessMeans}

\* the tables of the categorical variable: level a even, or held by female
LevelTables ==
    {<<[level |-> "a", gender |-> "female", n |-> IntV(f)],
       [level |-> "a", gender |-> "male", n |-> IntV(1)]>> : f \in {1, 3}}

\* missing percentages of x by gender: equal, or 25 points apart
Missingness ==
    {<<[var |-> "x", gender |-> "female", missing_pct |-> Dec(f)],
       [var |-> "x", gender |-> "male", missing_pct |-> Dec(0)]>> :
        f \in {0, 2500}}

NoAssessment ==
    [op |-> "assess_gender_bias",
     statistical_disparities |-> <<>>, representation_gaps |-> <<>>,
     missing_data_bias |-> <<>>, practical_significance |-> <<>>,
     recommendations |-> <<>>]

InitAssess ==
    /\ pc = "assess"
    /\ continuous_results \in
          {<<[var |-> "x", table |-> t, test |-> [p |-> p], effects |-> e]>> :
              t \in MeansTables, p \in AssessPs, e \in ContinuousEffects}
    /\ categorical_results \in
          {<<[var |-> "lev", table |-> t, test |-> [p |-> p], effects |-> e]>> :
              t \in LevelTables, p \in AssessPs \ {DZero}, e \in CategoricalEffects}
    /\ req \in {[by_gender |-> <<[gender |-> "female", n |-> 1, pct |-> 5000],
                                [gender |-> "male", n |-> 1, pct |-> 5000]>>,
                 missingness |-> m] : m \in Missingness}
    /\ out = NoAssessment
    /\ session = <<>>
    /\ df = <<>>
    /\ normality_tests = <<>>
    /\ p_values = <<>>
    /\ q_values = <<>>
    /\ corrected = Idle
    /\ cache = DataCache(1, 0)
    /\ now = 0

\* analysis_results_dict as assess_gender_bias receives it
AssessInput ==
    [by_gender |-> req.by_gender, continuous |-> continuous_results,
     categorical |-> categorical_results, missingness |-> req.missingness]

AssessFrame ==
    UNCHANGED <<session, df, req, normality_tests, continuous_results,
                categorical_results, p_values, q_values, corrected, cache, now>>

AssessDisparities ==
    /\ pc = "assess"
    /\ out' = [out EXCEPT !.statistical_disparities =
                              _assess_statistical_disparities(AssessInput)]
    /\ pc' = "gaps"
    /\ AssessFrame

AssessGaps ==
    /\ pc = "gaps"
    /\ out' = [out EXCEPT !.representation_gaps =
                              _assess_representation_gaps(AssessInput)]
    /\ pc' = "missing"
    /\ AssessFrame

AssessMissing ==
    /\ pc = "missing"
    /\ out' = [out EXCEPT !.missing_data_bias =
                              _assess_missing_data_bias(AssessInput)]
    /\ pc' = "practical"
    /\ AssessFrame

AssessPractical ==
    /\ pc = "practical"
    /\ out' = [out EXCEPT !.practical_significance =
                              _assess_practical_significance(AssessInput)]
    /\ pc' = "recommend"
    /\ AssessFrame

AssessRecommend ==
    /\ pc = "recommend"
    /\ out' = [out EXCEPT !.recommendations = _generate_recommendations(out)]
    /\ pc' = "assessed"
    /\ AssessFrame

NextAssess ==
    \/ AssessDisparities
    \/ AssessGaps
    \/ AssessMissing
    \/ AssessPractical
    \/ AssessRecommend

SpecAssess == InitAssess /\ [][NextAssess]_vars

(***************************************************************************)
(* Claims on the bias assessment                                           *)
(***************************************************************************)
\* the entries of statistical_disparities for a variable
EntriesFor(var) ==
    SelectSeq(out.statistical_disparities, LAMBDA d : d.variable = var)

\* the band of a magnitude in hundredths: small below lo, large from hi
Band(v, lo, hi) ==
    IF v >= hi THEN "large" ELSE IF v >= lo THEN "moderate" ELSE "small"

\* the result has one entry if its p-value is a number below 0.05 and none
\* otherwise, and the entry's severity is the band of the result's effect
OwnSeverity(var_result, name, lo, hi) ==
    LET effect_size == FirstEffect(var_result.effects, {name})
    IN  /\ Len(EntriesFor(var_result.var))
             = (IF NumericBelow005(var_result.test.p) THEN 1 ELSE 0)
        /\ \A i \in 1..Len(EntriesFor(var_result.var)) :
              (effect_size # None /\ IsDec(effect_size)) =>
                  EntriesFor(var_result.var)[i].severity
                      = Band(Abs(effect_size.v), lo, hi)

\* C24: statistical_disparities has one entry for every continuous or
\* categorical result with a numeric p below 0.05 and none for another
\* result, and the severity of an entry is the band of that variable's own
\* effect size: 0.5 and 0.8 for Cohen's d, 0.3 and 0.5 for Cramer's V.
C24_DisparitySeverity ==
    pc # "assess" =>
        /\ \A i \in 1..Len(continuous_results) :
              OwnSeverity(continuous_results[i], "Cohen's d", 50, 80)
        /\ \A i \in 1..Len(categorical_results) :
              OwnSeverity(categorical_results[i], "Cramer's V", 30, 50)

\* C26: a practical-significance finding is reported for a continuous
\* variable if and only if at least two gender groups have a reported mean
\* and the largest mean exceeds the smallest by more than 20% of the
\* magnitude of the smallest, a smallest mean of zero or below included.
C26_PracticalSignificance ==
    pc \in {"recommend", "assessed"} =>
        \A i \in 1..Len(continuous_results) :
            LET mean_values == NumbersOf(continuous_results[i].table, "mean")
            IN  (\E j \in 1..Len(out.practical_significance) :
                    out.practical_significance[j].variable
                        = continuous_results[i].var)
                <=> /\ Len(mean_values) >= 2
                    /\ (MaxOf(mean_values) - MinOf(mean_values)) * 100
                           > 20 * Abs(MinOf(mean_values))

Has(recommendations, text) ==
    \E i \in 1..Len(recommendations) : recommendations[i] = text

SomeLarge ==
    \E i \in 1..Len(out.statistical_disparities) :
        out.statistical_disparities[i].severity = "large"

\* each conditional recommendation appears exactly when its condition holds
TriggeredOnly ==
    /\ Has(out.recommendations, RecSampling) <=> out.representation_gaps # <<>>
    /\ Has(out.recommendations, RecMissingData) <=> out.missing_data_bias # <<>>
    /\ Has(out.recommendations, RecIntersectional) <=> SomeLarge
    /\ Has(out.recommendations, RecCommunities) <=> SomeLarge

NothingFound ==
    /\ out.statistical_disparities = <<>>
    /\ out.representation_gaps = <<>>
    /\ out.missing_data_bias = <<>>

\* C27 as stated: every recommendation is triggered only by its condition,
\* and without disparities, representation gaps and missing-data bias the
\* list of recommendations is empty.
C27_AsStated ==
    pc = "assessed" =>
        /\ TriggeredOnly
        /\ NothingFound => out.recommendations = <<>>

\* C27: the sampling-review recommendation appears iff representation_gaps
\* is non-empty, the missing-data recommendation iff missing_data_bias is
\* non-empty, the intersectional-analysis and community-engagement
\* recommendations iff some disparity has severity large; the three general
\* recommendations close every list, and are the whole list when nothing
\* was found.
C27_RecommendationsTriggered ==
    pc = "assessed" =>
        /\ TriggeredOnly
        /\ \A i \in 1..3 :
              out.recommendations[Len(out.recommendations) - 3 + i] = RecGeneral[i]
        /\ NothingFound => out.recommendations = RecGeneral

\* an assessment with moderate disparities only, a level gap and no
\* missing-data bias: the sampling review and the general recommendations
C27_Witness ==
    /\ pc = "assessed"
    /\ out.statistical_disparities # <<>>
    /\ ~SomeLarge
    /\ out.representation_gaps # <<>>
    /\ out.missing_data_bias = <<>>
    /\ out.recommendations = <<RecSampling>> \o RecGeneral

====
